---- MODULE Spec2Model ----
(***************************************************************************)
(* Deposit-hold payment coordinator (Express application).                 *)
(*                                                                         *)
(* The model follows the revision of the server that owns the time-boxed   *)
(* idempotency store (markDepositSent / alreadySentRecently, the force     *)
(* flag, the midnight sweep): src/unnamed/part_001.                        *)
(*                                                                         *)
(* Strings are sequences of integer tokens: a token >= 0 is a run of       *)
(* decimal digits (a reservation id, a Date.now() value), Colon is the     *)
(* character ":".  Time is counted in days, so THREE_DAYS_MS is 3 units.   *)
(***************************************************************************)
EXTENDS Integers, Sequences, FiniteSets, TLC

\* ------------------------------------------------------------------------
\* Bounds of the model
\* ------------------------------------------------------------------------
\* clock ticks after start-up
TimeSpan == 3

\* requests handled at the same time (single-request specification)
MaxReq == 1

\* requests, callbacks and scheduler runs in flight (workflow specification)
MaxFlowReq == 2

MaxCallbacks == 1

MaxRuns == 1

\* PaymentIntents the Payment Service holds at most
MaxHolds == 2

\* /terminal requests handled at a time
MaxTerminal == 1

\* POST /webhook requests being handled at a time
MaxHooks == 1

\* requests and scheduler runs in progress at a time, where the whole
\* server is modelled
MaxInFlight == 1

\* restarts of the process
MaxBoots == 1

\* reservations in an answer to list_reservations
MaxResults == 2

\* ------------------------------------------------------------------------
\* Program constants and value universes
\* ------------------------------------------------------------------------
THREE_DAYS_MS == 3

\* Date.now() at start-up; not before one retention window after the epoch
StartTime == THREE_DAYS_MS

MaxTime == StartTime + TimeSpan

Colon == 0 - 1

Null == 0 - 2

NaN == 0 - 3

Unknown == 0 - 4

\* reservation ids
BookingIDs == {101, 102}

\* the reservation that clients and the Booking Service's callbacks refer to
ClientBookingIDs == {101}

\* ------------------------------------------------------------------------
\* String helpers (String.prototype.split, Number, template literals)
\* ------------------------------------------------------------------------
\* index of the first Colon of s at or after position i, Len(s)+1 if none
RECURSIVE FirstColon(_, _)
FirstColon(s, i) ==
  IF i > Len(s) THEN Len(s) + 1
  ELSE IF s[i] = Colon THEN i
  ELSE FirstColon(s, i + 1)

\* s.split(":"): the sequence of the fields of s
RECURSIVE Split(_)
Split(s) ==
  LET c == FirstColon(s, 1)
  IN IF c > Len(s) THEN <<s>>
     ELSE <<SubSeq(s, 1, c - 1)>> \o Split(SubSeq(s, c + 1, Len(s)))

\* Number(x) of a field of a split; a missing field is undefined -> NaN,
\* the empty string is 0, one run of digits is its value, the rest is NaN
Number(fields, k) ==
  IF k > Len(fields) THEN NaN
  ELSE IF fields[k] = <<>> THEN 0
  ELSE IF Len(fields[k]) = 1 /\ fields[k][1] >= 0 THEN fields[k][1]
  ELSE NaN

\* String(bookingID)
String(b) == <<b>>

\* `${bookingID}:${Date.now()}`
SentEntry(b, t) == String(b) \o <<Colon>> \o <<t>>

VARIABLES
  now,                  \* Date.now()
  sentDepositBookings,  \* in-memory Set of "<bookingID>:<ms>" entries
  sentFile,             \* contents of sentDeposits.json
  processedBookings,    \* in-memory Set of bookingIDs with a handled callback
  callbackFile,         \* contents of processedCallbacks.json
  reqs,                 \* the send-link / confirmation requests being handled
  callbacks,            \* the POST /planyo/callback requests being handled
  sched,                \* the runDepositScheduler runs in progress
  formStatus,           \* in-memory form status object, keyed by bookingID
  mailbox,              \* per booking, what the Notification Sender delivered
  pcall,                \* the planyoCall invocation under observation
  paymentIntents,       \* the PaymentIntents held by the Payment Service
  treqs,                \* the /terminal/cancel and /terminal/capture requests
  pageViews,            \* per booking, the deposit pages served
  squery,               \* the last GET /deposit/status request and its answer
  hooks,                \* the POST /webhook requests being handled
  hookMail,             \* per hold, the notices the webhook handler delivered
  depositAnswer,        \* the answer to the last GET /deposit/pay or POST
                        \* /deposit/create-intent, where a property reads it
  host,                 \* the machine: whether writes to the data directory
                        \* may fail, and how often the process was started
  formAnswers,          \* per booking, the questionnaires whose submission
                        \* the server has acknowledged
  decision              \* the decideFormTypeForBooking call under observation

vars == <<now, sentDepositBookings, sentFile, processedBookings, callbackFile,
          reqs, callbacks, sched, formStatus, mailbox, pcall,
          paymentIntents, treqs, pageViews, squery, hooks, hookMail,
          depositAnswer, host, formAnswers, decision>>

\* the state of the handlers that read the holds
deskVars == <<squery, hooks, hookMail, depositAnswer, host, formAnswers, decision>>

\* the state of the deposit holds
holdVars == <<paymentIntents, treqs, pageViews, deskVars>>

\* everything but the deposit holds
serverVars == <<now, sentDepositBookings, sentFile, processedBookings,
                callbackFile, reqs, callbacks, sched, formStatus, mailbox, pcall>>

\* ------------------------------------------------------------------------
\* Idempotency store
\* ------------------------------------------------------------------------
\* a machine whose disk takes every write, running the first process
SoundHost == [diskFails |-> FALSE, boots |-> 0]

RECURSIVE SetToSeq(_)
\* [...set]: the elements of a Set one after the other
SetToSeq(S) ==
  IF S = {} THEN <<>>
  ELSE LET x == CHOOSE y \in S : TRUE IN <<x>> \o SetToSeq(S \ {x})

\* the file holding JSON.stringify([...set])
JsonArray(S) == [kind |-> "array", items |-> SetToSeq(S), keys |-> {}]

\* the file holding a JSON object with the given keys
JsonObject(K) == [kind |-> "object", items |-> <<>>, keys |-> K]

\* no file, and a file JSON.parse throws on
NoFile == [kind |-> "absent", items |-> <<>>, keys |-> {}]

Unparsable == [kind |-> "text", items |-> <<>>, keys |-> {}]

\* loadSet keeping an empty Set for everything but an array
loadSetArrayOnly(file) ==
  IF file.kind = "array" THEN {file.items[k] : k \in DOMAIN file.items} ELSE {}

\* loadSet(file): new Set(arr) of an array, new Set(Object.keys(arr)) of an
\* object, and an empty Set when there is no file or it does not parse
loadSet(file) ==
  IF file.kind = "array" THEN {file.items[k] : k \in DOMAIN file.items}
  ELSE IF file.kind = "object" THEN file.keys
  ELSE {}

\* what fs.writeFileSync may do: write the file, throw before it touched
\* it, or throw having truncated it; the last two only on a failing disk
SaveOutcomes == {"written", "refused", "torn"}

\* saveSet that lets the exception of a failed write end the handler: the
\* model keeps the file it had
saveSetNoWrite(file, set, w) == file

\* saveSet(file, set): the file after the call, whose catch block logs a
\* failed write and returns
saveSet(file, set, w) ==
  IF w = "written" \/ ~host.diskFails THEN JsonArray(set)
  ELSE IF w = "refused" THEN file
  ELSE Unparsable

\* alreadySentRecently without the test of the timestamp
alreadySentRecentlyAnyAge(b) ==
  \E entry \in sentDepositBookings : Split(entry)[1] = String(b)

\* alreadySentRecently with the whole entry compared to the id, as a Set
\* of bare ids would be searched
alreadySentRecentlyBareId(b) ==
  \E entry \in sentDepositBookings : entry = String(b)

\* alreadySentRecently(bookingID)
alreadySentRecently(b) ==
  LET cutoff == now - THREE_DAYS_MS
  IN \E entry \in sentDepositBookings :
       LET f == Split(entry)
       IN /\ f[1] = String(b)
          /\ Number(f, 2) # NaN
          /\ Number(f, 2) > cutoff


\* markDepositSent adding the bare id, without a timestamp
markDepositSentBareId(b) == sentDepositBookings \cup {String(b)}

\* markDepositSent(bookingID): the set after the add
markDepositSent(b) == sentDepositBookings \cup {SentEntry(b, now)}

\* the sweep with an inclusive comparison, Number(ts) >= cutoff
sweepCleanInclusive ==
  LET cutoff == now - THREE_DAYS_MS
  IN {entry \in sentDepositBookings :
        /\ Number(Split(entry), 2) # NaN
        /\ Number(Split(entry), 2) >= cutoff}

\* the filter of the midnight cron job: the entries that are kept
sweepClean ==
  LET cutoff == now - THREE_DAYS_MS
  IN {entry \in sentDepositBookings :
        /\ Number(Split(entry), 2) # NaN
        /\ Number(Split(entry), 2) > cutoff}

\* ------------------------------------------------------------------------
\* Booking Service (Planyo) responses, as the remote side may produce them
\* ------------------------------------------------------------------------
\* phrases of response_message, as tokens
InvalidTimestampTok == 0 - 10

CurrentTimestampTok == 0 - 11

InvalidHashTok == 0 - 12

\* data.status values: the number 7, the string "7", another status code
StatusNum7 == 7

StatusStr7 == 0 - 7

StatusOther == 4

\* clock values the remote service may report
ServerTimes == {2, 9}

NoData == [present |-> FALSE, email |-> Null, status |-> Null, results |-> <<>>]

Messages ==
  {<<>>, <<InvalidTimestampTok>>, <<InvalidHashTok>>}
    \cup {<<InvalidTimestampTok, CurrentTimestampTok, T>> : T \in ServerTimes}

\* kind "neterr": fetch rejects; "text": a body that is not JSON;
\* "json": a body that parses to {response_code, response_message, data}
NetErr == [kind |-> "neterr", code |-> Null, msg |-> <<>>, data |-> NoData]

NonJson == [kind |-> "text", code |-> Null, msg |-> <<>>, data |-> NoData]

ErrorResponses ==
  {[kind |-> "json", code |-> c, msg |-> m, data |-> NoData] :
     c \in {1, 3}, m \in Messages}

BookingData(e, st) ==
  [present |-> TRUE, email |-> e, status |-> st, results |-> <<>>]

ListData(rs) ==
  [present |-> TRUE, email |-> Null, status |-> Null, results |-> rs]

OkResponse(d) == [kind |-> "json", code |-> 0, msg |-> <<>>, data |-> d]

\* answers to get_reservation_data
BookingResponses ==
  {NetErr, NonJson} \cup ErrorResponses
    \cup {OkResponse(BookingData(e, st)) :
            e \in {Null, 501}, st \in {StatusNum7, StatusStr7, StatusOther}}
    \cup {OkResponse(NoData)}

\* answers to list_reservations
ListResponses ==
  {NetErr, NonJson} \cup ErrorResponses
    \cup {OkResponse(ListData(rs)) :
            rs \in {<<>>, <<101>>, <<102, 101>>}}

Methods == {"get_reservation_data", "list_reservations"}

ResponsesTo(method) ==
  IF method = "get_reservation_data" THEN BookingResponses ELSE ListResponses

\* ------------------------------------------------------------------------
\* planyoCall
\* ------------------------------------------------------------------------
PLANYO_HASH_KEY == 77

\* md5(str): injective on the strings that are hashed here
md5(str) == <<"md5", str>>

\* tsNow(): Math.floor(Date.now() / 1000), in the model's unit of time
tsNow == now

\* buildUrl hashing the local clock whatever timestamp it sends
buildUrlStaleDigest(method, timestamp) ==
  [method |-> method,
   hash_timestamp |-> timestamp,
   hash_key |-> md5(<<PLANYO_HASH_KEY, tsNow, method>>)]

\* buildUrl(timestamp): the query parameters that carry the signature
buildUrl(method, timestamp) ==
  [method |-> method,
   hash_timestamp |-> timestamp,
   hash_key |-> md5(<<PLANYO_HASH_KEY, timestamp, method>>)]

\* fetchOnce: { url, json, text } of one answered request
fetchOnce(url, resp) ==
  [url |-> url, json |-> IF resp.kind = "json" THEN resp ELSE NonJson,
   isJson |-> resp.kind = "json"]

\* a retry that takes a fresh local timestamp instead of the reported one
driftTimestampFresh(f) ==
  IF /\ f.isJson
     /\ f.json.code = 1
     /\ \E k \in 1..Len(f.json.msg) : f.json.msg[k] = InvalidTimestampTok
  THEN tsNow
  ELSE Null

\* the drift test and the regular expression of the retry branch:
\* the corrected timestamp, or Null when planyoCall does not retry
driftTimestamp(f) ==
  IF /\ f.isJson
     /\ f.json.code = 1
     /\ \E k \in 1..Len(f.json.msg) : f.json.msg[k] = InvalidTimestampTok
  THEN IF \E k \in 1..(Len(f.json.msg) - 1) :
            f.json.msg[k] = CurrentTimestampTok /\ f.json.msg[k + 1] >= 0
       THEN LET k == CHOOSE k \in 1..(Len(f.json.msg) - 1) :
                       f.json.msg[k] = CurrentTimestampTok /\ f.json.msg[k + 1] >= 0
            IN f.json.msg[k + 1]
       ELSE Null
  ELSE Null

NonJsonMessage ==
  [kind |-> "json", code |-> 1, msg |-> <<>>, data |-> NoData]

\* planyoCall without the test of a body that did not parse: reading
\* json.response_code of null throws
planyoReturnNoJsonTest(f) ==
  IF ~f.isJson
  THEN [ok |-> FALSE, threw |-> TRUE, url |-> f.url, json |-> NonJson,
        hasRaw |-> FALSE]
  ELSE IF f.json.code # 0
  THEN [ok |-> FALSE, threw |-> FALSE, url |-> f.url, json |-> f.json,
        hasRaw |-> TRUE]
  ELSE [ok |-> TRUE, threw |-> FALSE, url |-> f.url, json |-> f.json,
        hasRaw |-> FALSE]

\* planyoCall without the response_code test
planyoReturnNoCodeTest(f) ==
  IF ~f.isJson
  THEN [ok |-> FALSE, threw |-> FALSE, url |-> f.url, json |-> NonJsonMessage,
        hasRaw |-> TRUE]
  ELSE [ok |-> TRUE, threw |-> FALSE, url |-> f.url, json |-> f.json,
        hasRaw |-> FALSE]

\* the value planyoCall returns for the last { url, json, text }
planyoReturn(f) ==
  IF ~f.isJson
  THEN [ok |-> FALSE, threw |-> FALSE, url |-> f.url, json |-> NonJsonMessage,
        hasRaw |-> TRUE]
  ELSE IF f.json.code # 0
  THEN [ok |-> FALSE, threw |-> FALSE, url |-> f.url, json |-> f.json,
        hasRaw |-> TRUE]
  ELSE [ok |-> TRUE, threw |-> FALSE, url |-> f.url, json |-> f.json,
        hasRaw |-> FALSE]

\* a rejected fetch propagates out of planyoCall
planyoThrow(url) ==
  [ok |-> FALSE, threw |-> TRUE, url |-> url, json |-> NonJson, hasRaw |-> FALSE]

\* planyoCall(method) started at clock value ts, the remote side answering
\* resp1 to the first request and resp2 to the retry, if there is one
planyoCall(method, ts, resp1, resp2) ==
  LET url1 == buildUrl(method, ts)
  IN IF resp1.kind = "neterr" THEN planyoThrow(url1)
     ELSE LET f1 == fetchOnce(url1, resp1)
              T == driftTimestamp(f1)
          IN IF T = Null THEN planyoReturn(f1)
             ELSE LET url2 == buildUrl(method, T)
                  IN IF resp2.kind = "neterr" THEN planyoThrow(url2)
                     ELSE planyoReturn(fetchOnce(url2, resp2))

\* the six-field record fetchPlanyoBooking returns on a failed lookup
Sentinel ==
  [resource |-> "N/A", start |-> "N/A", end |-> "N/A",
   firstName |-> "", lastName |-> "", email |-> Null]

\* fetchPlanyoBooking without its try / catch
bookingRecordNoCatch(r) ==
  IF r.threw THEN [threw |-> TRUE]
  ELSE IF ~r.ok THEN Sentinel
  ELSE [Sentinel EXCEPT !.email = r.json.data.email]

\* what fetchPlanyoBooking makes of the outcome r of its planyoCall
bookingRecord(r) ==
     IF r.threw THEN Sentinel
     ELSE IF ~r.ok THEN Sentinel
     ELSE [resource |-> IF r.json.data.present THEN "name" ELSE "N/A",
           start |-> IF r.json.data.present THEN "start_time" ELSE "N/A",
           end |-> IF r.json.data.present THEN "end_time" ELSE "N/A",
           firstName |-> IF r.json.data.present THEN "first_name" ELSE "",
           lastName |-> IF r.json.data.present THEN "last_name" ELSE "",
           email |-> r.json.data.email]

fetchPlanyoBooking(ts, resp1, resp2) ==
  bookingRecord(planyoCall("get_reservation_data", ts, resp1, resp2))


\* ------------------------------------------------------------------------
\* planyoCall, one network round trip per step
\* ------------------------------------------------------------------------
IdleCall ==
  [pc |-> "idle", method |-> "get_reservation_data", requests |-> <<>>,
   responses |-> <<>>, result |-> planyoThrow(buildUrl("get_reservation_data", 0)),
   booking |-> Sentinel]

\* planyoCall is entered: the first request is built with tsNow() and sent
PlanyoStart(method) ==
  /\ pcall.pc \in {"idle", "done", "returned"}
  /\ pcall' = [pc |-> "first", method |-> method,
               requests |-> <<buildUrl(method, tsNow)>>,
               responses |-> <<>>, result |-> IdleCall.result,
               booking |-> Sentinel]

\* the pending request is answered (or its fetch rejects)
PlanyoAnswer(resp) ==
  /\ pcall.pc \in {"first", "retry"}
  /\ resp \in ResponsesTo(pcall.method)
  /\ LET url == pcall.requests[Len(pcall.requests)]
         f == fetchOnce(url, resp)
         seen == Append(pcall.responses, resp)
     IN IF resp.kind = "neterr"
        THEN pcall' = [pcall EXCEPT !.pc = "done", !.responses = seen,
                                    !.result = planyoThrow(url)]
        ELSE IF pcall.pc = "first" /\ driftTimestamp(f) # Null
        THEN pcall' = [pcall EXCEPT
                         !.pc = "retry", !.responses = seen,
                         !.requests = Append(@, buildUrl(pcall.method, driftTimestamp(f)))]
        ELSE pcall' = [pcall EXCEPT !.pc = "done", !.responses = seen,
                                    !.result = planyoReturn(f)]


\* ------------------------------------------------------------------------
\* HTTP requests: POST /deposit/send-link, POST /email/deposit-confirmation
\* ------------------------------------------------------------------------
\* values of req.body.force: true, "true", 1, "1", absent, "false"
ForceValues ==
  {"bool:true", "str:true", "num:1", "str:1", "undefined", "str:false"}

\* isForced accepting the boolean only
isForcedBooleanOnly(force) == force = "bool:true"

\* const isForced = force === true || force === "true" || force === 1 || force === "1"
isForced(force) ==
  force = "bool:true" \/ force = "str:true" \/ force = "num:1" \/ force = "str:1"

\* the force values that count as set
ForceIsSet(force) == force \in {"bool:true", "str:true", "num:1", "str:1"}

NoResponse == [status |-> 0, success |-> FALSE, alreadySent |-> FALSE, error |-> "none"]

\* a slot without a request
FreeReq ==
  [pc |-> "free", kind |-> "none", bookingID |-> 0, force |-> "undefined",
   via |-> "none", email |-> Unknown, sendCalls |-> 0, delivered |-> {},
   res |-> NoResponse]

NewRequest(kind, b, force, via) ==
  [FreeReq EXCEPT !.pc = "lookup", !.kind = kind, !.bookingID = b,
                  !.force = force, !.via = via]

Respond(r, st, ok, dup, err) ==
  [r EXCEPT !.pc = "done",
            !.res = [status |-> st, success |-> ok, alreadySent |-> dup, error |-> err]]

\* a sent-record of booking b younger than the retention window exists
HasActiveRecord(b) ==
  \E t \in 0..now : SentEntry(b, t) \in sentDepositBookings /\ now - t < THREE_DAYS_MS

\* the last non-forced send-link of booking b that went through did so
\* inside the retention window
CompletedSendInWindow(b) ==
  mailbox[b].ok # Null /\ now - mailbox[b].ok < THREE_DAYS_MS

\* the customer got a deposit request of booking b from a non-forced
\* send-link inside the retention window
CustomerMailedInWindow(b) ==
  mailbox[b].cust # Null /\ now - mailbox[b].cust < THREE_DAYS_MS

\* the answer to a request whose booking has no email
noEmailAnswer(r) == Respond(r, 200, FALSE, FALSE, "No customer email")

\* POST /deposit/send-link up to its first await: the suppression check
SendLinkReceive(i, b, force, via) ==
  /\ reqs[i].pc = "free"
  /\ \A j \in 1..(i - 1) : reqs[j].pc # "free"
  /\ LET r == NewRequest("send-link", b, force, via)
     IN IF ~isForced(force) /\ alreadySentRecently(b)
        THEN reqs' = [reqs EXCEPT ![i] = Respond(r, 200, TRUE, TRUE, "none")]
        ELSE reqs' = [reqs EXCEPT ![i] = r]

\* the handler without the test of bk.email
SendLinkLookedUpNoTest(i, bk) ==
  reqs' = [reqs EXCEPT ![i] = [@ EXCEPT !.pc = "sending", !.email = bk.email,
                                        !.sendCalls = 2]]

\* fetchPlanyoBooking returns: no email ends the request, an email starts
\* the two sendgrid.send calls of Promise.all
SendLinkLookedUp(i, bk) ==
  IF bk.email = Null
  THEN reqs' = [reqs EXCEPT ![i] = noEmailAnswer([@ EXCEPT !.email = Null])]
  ELSE reqs' = [reqs EXCEPT ![i] = [@ EXCEPT !.pc = "sending", !.email = bk.email,
                                             !.sendCalls = 2]]

\* marking after every send, forced or not
marksSentAlways(force) == TRUE

\* if (!isForced) markDepositSent(bookingID)
marksSent(force) == ~isForced(force)

\* the recipients whose message the Notification Sender accepted
Delivered(okCustomer, okAdmin) ==
  {x \in {"customer"} : okCustomer} \cup {x \in {"admin"} : okAdmin}

\* the handler marking before it awaits the sends
SendLinkSettledMarkFirst(i, okCustomer, okAdmin) ==
  LET r == [reqs[i] EXCEPT !.delivered = Delivered(okCustomer, okAdmin)]
  IN /\ reqs' = [reqs EXCEPT ![i] =
                   IF okCustomer /\ okAdmin
                   THEN Respond(r, 200, TRUE, FALSE, "none")
                   ELSE Respond(r, 200, FALSE, FALSE, "err.message")]
     /\ IF marksSent(reqs[i].force)
        THEN /\ sentDepositBookings' = markDepositSent(reqs[i].bookingID)
             /\ \E w \in SaveOutcomes :
                  sentFile' = saveSet(sentFile, markDepositSent(reqs[i].bookingID), w)
        ELSE UNCHANGED <<sentDepositBookings, sentFile>>

\* Promise.all settles: mark, save and answer, or the catch block
SendLinkSettled(i, okCustomer, okAdmin) ==
  LET r == [reqs[i] EXCEPT !.delivered = Delivered(okCustomer, okAdmin)]
  IN IF okCustomer /\ okAdmin
     THEN /\ reqs' = [reqs EXCEPT ![i] = Respond(r, 200, TRUE, FALSE, "none")]
          /\ IF marksSent(reqs[i].force)
             THEN /\ sentDepositBookings' = markDepositSent(reqs[i].bookingID)
                  /\ \E w \in SaveOutcomes :
                       sentFile' = saveSet(sentFile,
                                           markDepositSent(reqs[i].bookingID), w)
             ELSE UNCHANGED <<sentDepositBookings, sentFile>>
     ELSE /\ reqs' = [reqs EXCEPT ![i] = Respond(r, 200, FALSE, FALSE, "err.message")]
          /\ UNCHANGED <<sentDepositBookings, sentFile>>

\* the Notification Sender's record of the deposit requests of booking b
Mailed(i, okCustomer, okAdmin) ==
  [mailbox EXCEPT ![reqs[i].bookingID] =
     [@ EXCEPT !.cust = IF okCustomer /\ ~ForceIsSet(reqs[i].force) THEN now ELSE @,
               !.ok = IF okCustomer /\ okAdmin /\ ~ForceIsSet(reqs[i].force)
                      THEN now ELSE @]]

\* what fetchPlanyoBooking can return, over the answers of the remote side
\* (the record does not depend on the clock value used for signing)
BookingOutcomes ==
  {fetchPlanyoBooking(0, r1, r2) : r1 \in BookingResponses, r2 \in BookingResponses}

\* what the scheduler reads of planyoCall("list_reservations"): whether it
\* threw, and list.json?.data?.results
ListOutcomes ==
  {LET r == planyoCall("list_reservations", 0, r1, r2)
   IN [threw |-> r.threw, results |-> r.json.data.results] :
     r1 \in ListResponses, r2 \in ListResponses}

\* what the scheduler reads of planyoCall("get_reservation_data"): whether
\* it threw, and details.json?.data?.status
DetailOutcomes ==
  {LET r == planyoCall("get_reservation_data", 0, r1, r2)
   IN [threw |-> r.threw, status |-> r.json.data.status] :
     r1 \in BookingResponses, r2 \in BookingResponses}

\* POST /deposit/send-link received from a client
SendLinkDirect ==
  /\ \E i \in DOMAIN reqs, b \in ClientBookingIDs, force \in ForceValues :
       SendLinkReceive(i, b, force, "direct")
  /\ UNCHANGED <<now, sentDepositBookings, sentFile, processedBookings,
                 callbackFile, callbacks, sched, formStatus, mailbox, pcall, holdVars>>

\* POST /deposit/resend: forwards to /deposit/send-link with force: true
DepositResend ==
  /\ \E i \in DOMAIN reqs, b \in ClientBookingIDs :
       SendLinkReceive(i, b, "bool:true", "resend")
  /\ UNCHANGED <<now, sentDepositBookings, sentFile, processedBookings,
                 callbackFile, callbacks, sched, formStatus, mailbox, pcall, holdVars>>

SendLinkLookup ==
  /\ \E i \in DOMAIN reqs, bk \in BookingOutcomes :
       /\ reqs[i].kind = "send-link" /\ reqs[i].pc = "lookup"
       /\ SendLinkLookedUp(i, bk)
  /\ UNCHANGED <<now, sentDepositBookings, sentFile, processedBookings,
                 callbackFile, callbacks, sched, formStatus, mailbox, pcall, holdVars>>

SendLinkSend ==
  /\ \E i \in DOMAIN reqs, okCustomer \in BOOLEAN, okAdmin \in BOOLEAN :
       /\ reqs[i].kind = "send-link" /\ reqs[i].pc = "sending"
       /\ SendLinkSettled(i, okCustomer, okAdmin)
       /\ mailbox' = Mailed(i, okCustomer, okAdmin)
  /\ UNCHANGED <<now, processedBookings, callbackFile, callbacks, sched,
                 formStatus, pcall, holdVars>>

\* POST /email/deposit-confirmation
ConfirmationReceive ==
  /\ \E i \in DOMAIN reqs, b \in ClientBookingIDs :
       /\ reqs[i].pc = "free"
       /\ \A j \in 1..(i - 1) : reqs[j].pc # "free"
       /\ reqs' = [reqs EXCEPT ![i] = NewRequest("confirmation", b, "undefined", "direct")]
  /\ UNCHANGED <<now, sentDepositBookings, sentFile, processedBookings,
                 callbackFile, callbacks, sched, formStatus, mailbox, pcall, holdVars>>

ConfirmationLookup ==
  /\ \E i \in DOMAIN reqs, bk \in BookingOutcomes :
       /\ reqs[i].kind = "confirmation" /\ reqs[i].pc = "lookup"
       /\ IF bk.email = Null
          THEN reqs' = [reqs EXCEPT ![i] =
                          Respond([@ EXCEPT !.email = Null], 400, FALSE, FALSE,
                                  "Could not find customer email")]
          ELSE reqs' = [reqs EXCEPT ![i] =
                          [@ EXCEPT !.pc = "sending", !.email = bk.email, !.sendCalls = 2]]
  /\ UNCHANGED <<now, sentDepositBookings, sentFile, processedBookings,
                 callbackFile, callbacks, sched, formStatus, mailbox, pcall, holdVars>>

ConfirmationSend ==
  /\ \E i \in DOMAIN reqs, okCustomer \in BOOLEAN, okAdmin \in BOOLEAN :
       /\ reqs[i].kind = "confirmation" /\ reqs[i].pc = "sending"
       /\ LET r == [reqs[i] EXCEPT !.delivered = Delivered(okCustomer, okAdmin)]
          IN IF okCustomer /\ okAdmin
             THEN reqs' = [reqs EXCEPT ![i] = Respond(r, 200, TRUE, FALSE, "none")]
             ELSE reqs' = [reqs EXCEPT ![i] = Respond(r, 500, FALSE, FALSE, "err.message")]
  /\ UNCHANGED <<now, sentDepositBookings, sentFile, processedBookings,
                 callbackFile, callbacks, sched, formStatus, mailbox, pcall, holdVars>>

\* the client has the answer: the request is over
Close ==
  /\ \E i \in DOMAIN reqs :
       /\ reqs[i].pc = "done"
       /\ reqs[i].via \in {"direct", "resend"}
       /\ reqs' = [reqs EXCEPT ![i] = FreeReq]
  /\ UNCHANGED <<now, sentDepositBookings, sentFile, processedBookings,
                 callbackFile, callbacks, sched, formStatus, mailbox, pcall, holdVars>>


\* ------------------------------------------------------------------------
\* POST /planyo/callback
\* ------------------------------------------------------------------------
\* formStatus[bookingID] of a booking without a record; a field the code
\* leaves out of a record is Null
NoForm == [present |-> FALSE, requiredForm |-> "none", shortDone |-> FALSE,
           longDone |-> FALSE, licenceNumber |-> Null, dvlaCode |-> Null,
           dvlaStatus |-> "absent"]

\* no questionnaire submission acknowledged
NoFormAnswers == [b \in BookingIDs |-> {}]

\* no decideFormTypeForBooking call under observation
NoDecision ==
  [email |-> Null, currentStartStr |-> [form |-> "none", day |-> 0],
   currentReservationId |-> 0,
   results |-> <<>>, answer |-> "none"]

\* a callback that writes a fresh record over the one the booking has
callbackFormReplacing(saved, formType) ==
  [present |-> TRUE, requiredForm |-> formType, shortDone |-> FALSE,
   longDone |-> FALSE, licenceNumber |-> Null, dvlaCode |-> Null,
   dvlaStatus |-> "absent"]

\* if (!formStatus[bookingID]) formStatus[bookingID] = { requiredForm,
\* shortDone: false, longDone: false } else the record's requiredForm is set
callbackForm(saved, formType) ==
  IF ~saved.present
  THEN [NoForm EXCEPT !.present = TRUE, !.requiredForm = formType]
  ELSE [saved EXCEPT !.requiredForm = formType]

FreeCallback ==
  [pc |-> "free", bookingID |-> 0, child |-> 0, status |-> 0, body |-> "none"]

\* the processed check with the id compared as a number to the stored strings
alreadyProcessedNumber(b) == FALSE

\* processedBookings.has(bookingID)
alreadyProcessed(b) == b \in processedBookings

\* the handler up to its first await: the notification type and the
\* processed check
CallbackReceive ==
  /\ \E c \in DOMAIN callbacks, b \in ClientBookingIDs,
        type \in {"reservation_confirmed", "other"} :
       /\ callbacks[c].pc = "free"
       /\ \A j \in 1..(c - 1) : callbacks[j].pc # "free"
       /\ IF type # "reservation_confirmed"
          THEN callbacks' = [callbacks EXCEPT ![c] =
                               [pc |-> "done", bookingID |-> b, child |-> 0,
                                status |-> 200, body |-> "OK"]]
          ELSE IF alreadyProcessed(b)
          THEN callbacks' = [callbacks EXCEPT ![c] =
                               [pc |-> "done", bookingID |-> b, child |-> 0,
                                status |-> 200, body |-> "Already processed"]]
          ELSE callbacks' = [callbacks EXCEPT ![c] =
                               [pc |-> "lookup", bookingID |-> b, child |-> 0,
                                status |-> 0, body |-> "none"]]
  /\ UNCHANGED <<now, sentDepositBookings, sentFile, processedBookings,
                 callbackFile, reqs, sched, formStatus, mailbox, pcall, holdVars>>

\* fetchPlanyoBooking returns: customerEmail = bk.email || data.email;
\* bk.start is never empty, so only a missing email skips the questionnaire
CallbackLookup ==
  /\ \E c \in DOMAIN callbacks, bk \in BookingOutcomes, payloadEmail \in {Null, 501} :
       /\ callbacks[c].pc = "lookup"
       /\ LET customerEmail == IF bk.email # Null THEN bk.email ELSE payloadEmail
          IN callbacks' = [callbacks EXCEPT ![c] =
               [@ EXCEPT !.pc = IF customerEmail # Null THEN "decide" ELSE "sendlink"]]
  /\ UNCHANGED <<now, sentDepositBookings, sentFile, processedBookings,
                 callbackFile, reqs, sched, formStatus, mailbox, pcall, holdVars>>

\* decideFormTypeForBooking returns (or throws into the inner catch);
\* the form status record is created or updated and saved
CallbackDecide ==
  /\ \E c \in DOMAIN callbacks, outcome \in {"short", "long", "throw"} :
       /\ callbacks[c].pc = "decide"
       /\ IF outcome = "throw"
          THEN /\ callbacks' = [callbacks EXCEPT ![c] = [@ EXCEPT !.pc = "sendlink"]]
               /\ UNCHANGED formStatus
          ELSE /\ callbacks' = [callbacks EXCEPT ![c] = [@ EXCEPT !.pc = "questionnaire"]]
               /\ formStatus' = [formStatus EXCEPT ![callbacks[c].bookingID] =
                                  callbackForm(@, outcome)]
  /\ UNCHANGED <<now, sentDepositBookings, sentFile, processedBookings,
                 callbackFile, reqs, sched, mailbox, pcall, holdVars>>

\* sendQuestionnaireEmail: customer first, then admin; a failure is caught.
\* The mailbox counts the customer's questionnaire emails up to "several"
CallbackQuestionnaire ==
  /\ \E c \in DOMAIN callbacks, okCustomer \in BOOLEAN :
       /\ callbacks[c].pc = "questionnaire"
       /\ callbacks' = [callbacks EXCEPT ![c] = [@ EXCEPT !.pc = "sendlink"]]
       /\ mailbox' = [mailbox EXCEPT ![callbacks[c].bookingID] =
            [@ EXCEPT !.quest = IF okCustomer /\ @ < 2 THEN @ + 1 ELSE @]]
  /\ UNCHANGED <<now, sentDepositBookings, sentFile, processedBookings,
                 callbackFile, reqs, sched, formStatus, pcall, holdVars>>

\* await fetch(.../deposit/send-link) with { bookingID, amount: 20000 },
\* or the fetch rejects and the outer catch answers 500
CallbackSendLink ==
  /\ \E c \in DOMAIN callbacks :
       /\ callbacks[c].pc = "sendlink"
       /\ \/ \E i \in DOMAIN reqs :
               /\ SendLinkReceive(i, callbacks[c].bookingID, "undefined", "callback")
               /\ callbacks' = [callbacks EXCEPT ![c] =
                                  [@ EXCEPT !.pc = "await", !.child = i]]
          \/ /\ callbacks' = [callbacks EXCEPT ![c] =
                                [@ EXCEPT !.pc = "done", !.status = 500,
                                          !.body = "Error"]]
             /\ UNCHANGED reqs
  /\ UNCHANGED <<now, sentDepositBookings, sentFile, processedBookings,
                 callbackFile, sched, formStatus, mailbox, pcall, holdVars>>

\* the fetch resolves: the booking is marked processed, whatever the answer
CallbackFinish ==
  /\ \E c \in DOMAIN callbacks :
       /\ callbacks[c].pc = "await"
       /\ reqs[callbacks[c].child].pc = "done"
       /\ processedBookings' = processedBookings \cup {callbacks[c].bookingID}
       /\ \E w \in SaveOutcomes :
            callbackFile' = saveSet(callbackFile,
                                    processedBookings \cup {callbacks[c].bookingID}, w)
       /\ callbacks' = [callbacks EXCEPT ![c] =
                          [@ EXCEPT !.pc = "done", !.child = 0, !.status = 200,
                                    !.body = "OK"]]
       /\ reqs' = [reqs EXCEPT ![callbacks[c].child] = FreeReq]
  /\ UNCHANGED <<now, sentDepositBookings, sentFile, sched, formStatus, mailbox,
                 pcall, holdVars>>

\* the Booking Service has the answer: the callback is over
CallbackClose ==
  /\ \E c \in DOMAIN callbacks :
       /\ callbacks[c].pc = "done"
       /\ callbacks' = [callbacks EXCEPT ![c] = FreeCallback]
  /\ UNCHANGED <<now, sentDepositBookings, sentFile, processedBookings,
                 callbackFile, reqs, sched, formStatus, mailbox, pcall, holdVars>>

\* ------------------------------------------------------------------------
\* runDepositScheduler (cron 19:00 and GET /trigger-daily-deposits)
\* ------------------------------------------------------------------------
FreeRun ==
  [pc |-> "free", items |-> <<>>, child |-> 0, failed |-> FALSE, status |-> Null]

SchedulerStart ==
  /\ \E s \in DOMAIN sched :
       /\ sched[s].pc \in {"free", "done"}
       /\ \A j \in 1..(s - 1) : sched[j].pc \notin {"free", "done"}
       /\ sched' = [sched EXCEPT ![s] = [FreeRun EXCEPT !.pc = "list"]]
  /\ UNCHANGED <<now, sentDepositBookings, sentFile, processedBookings,
                 callbackFile, reqs, callbacks, formStatus, mailbox, pcall, holdVars>>

EndRun(run, failed) ==
  [run EXCEPT !.pc = "done", !.items = <<>>, !.child = 0, !.failed = failed,
              !.status = Null]

\* the run moves to the next listed reservation, or ends
NextItem(run) ==
  IF Len(run.items) <= 1 THEN EndRun(run, FALSE)
  ELSE [run EXCEPT !.pc = "details", !.items = Tail(@), !.child = 0,
                   !.status = Null]

\* planyoCall("list_reservations") returns or throws
SchedulerList ==
  /\ \E s \in DOMAIN sched, list \in ListOutcomes :
       /\ sched[s].pc = "list"
       /\ sched' = [sched EXCEPT ![s] =
            IF list.threw THEN EndRun(@, TRUE)
            ELSE IF Len(list.results) = 0 THEN EndRun(@, FALSE)
            ELSE [@ EXCEPT !.pc = "details", !.items = list.results]]
  /\ UNCHANGED <<now, sentDepositBookings, sentFile, processedBookings,
                 callbackFile, reqs, callbacks, formStatus, mailbox, pcall, holdVars>>

\* a run that asks for the link whatever the status of the reservation
schedulerSkipsNone(status) == FALSE

\* if (status !== "7" && status !== 7) continue
schedulerSkips(status) == status # StatusStr7 /\ status # StatusNum7

\* planyoCall("get_reservation_data") for the head item: the status filter
SchedulerDetails ==
  /\ \E s \in DOMAIN sched, details \in DetailOutcomes :
       /\ sched[s].pc = "details"
       /\ sched' = [sched EXCEPT ![s] =
            IF details.threw THEN EndRun(@, TRUE)
            ELSE IF schedulerSkips(details.status)
            THEN NextItem(@)
            ELSE [@ EXCEPT !.pc = "sendlink", !.status = details.status]]
  /\ UNCHANGED <<now, sentDepositBookings, sentFile, processedBookings,
                 callbackFile, reqs, callbacks, formStatus, mailbox, pcall, holdVars>>

\* await fetch(.../deposit/send-link) for the head item, or the fetch
\* rejects and the run ends in the catch block
SchedulerSendLink ==
  /\ \E s \in DOMAIN sched :
       /\ sched[s].pc = "sendlink"
       /\ \/ \E i \in DOMAIN reqs :
               /\ SendLinkReceive(i, Head(sched[s].items), "undefined", "scheduler")
               /\ sched' = [sched EXCEPT ![s] = [@ EXCEPT !.pc = "await", !.child = i]]
          \/ /\ sched' = [sched EXCEPT ![s] = EndRun(@, TRUE)]
             /\ UNCHANGED reqs
  /\ UNCHANGED <<now, sentDepositBookings, sentFile, processedBookings,
                 callbackFile, callbacks, formStatus, mailbox, pcall, holdVars>>

SchedulerAwait ==
  /\ \E s \in DOMAIN sched :
       /\ sched[s].pc = "await"
       /\ reqs[sched[s].child].pc = "done"
       /\ sched' = [sched EXCEPT ![s] = NextItem(@)]
       /\ reqs' = [reqs EXCEPT ![sched[s].child] = FreeReq]
  /\ UNCHANGED <<now, sentDepositBookings, sentFile, processedBookings,
                 callbackFile, callbacks, formStatus, mailbox, pcall, holdVars>>

\* ------------------------------------------------------------------------
\* Midnight sweep of the sent set, and the clock
\* ------------------------------------------------------------------------
Sweep ==
  /\ sentDepositBookings' = sweepClean
  /\ \E w \in SaveOutcomes : sentFile' = saveSet(sentFile, sweepClean, w)
  /\ UNCHANGED <<now, processedBookings, callbackFile, reqs, callbacks,
                 sched, formStatus, mailbox, pcall, holdVars>>

Tick ==
  /\ now < MaxTime
  /\ now' = now + 1
  /\ UNCHANGED <<sentDepositBookings, sentFile, processedBookings, callbackFile,
                 reqs, callbacks, sched, formStatus, mailbox, pcall, holdVars>>


\* ------------------------------------------------------------------------
\* The server
\* ------------------------------------------------------------------------
NoMail == [cust |-> Null, ok |-> Null, quest |-> 0]

\* sentDeposits.json as loadSet may find it at start-up: absent, written by
\* this revision, or a JSON object / array of bare ids of another revision
LoadableSentSets ==
  {{}, {SentEntry(101, StartTime - 1)}, {String(102), SentEntry(102, StartTime)}}

\* the answers of the deposit page and of create-intent are not recorded
Unobserved == [handler |-> "unobserved", code |-> 0, body |-> "none", caught |-> FALSE]

\* a POST /webhook slot without a request
FreeHook ==
  [pc |-> "free", type |-> "none", hold |-> 0, bookingID |-> 0, status |-> 0,
   lookups |-> 0, mails |-> 0, signed |-> TRUE]

\* no GET /deposit/status or GET /terminal/list request answered yet
NoStatusQuery ==
  [kind |-> "none", bookingID |-> 0, code |-> 0, success |-> FALSE,
   hold |-> 0, status |-> "none", listed |-> <<>>]

InitServer ==
  /\ now = StartTime
  /\ processedBookings = {}
  /\ callbackFile = NoFile
  /\ formStatus = [b \in BookingIDs |-> NoForm]
  /\ mailbox = [b \in BookingIDs |-> NoMail]
  /\ pcall = IdleCall
  /\ paymentIntents = <<>>
  /\ pageViews = [b \in BookingIDs |-> 0]
  /\ squery = NoStatusQuery
  /\ hooks = [k \in 1..MaxHooks |-> FreeHook]
  /\ hookMail = [h \in 1..MaxHolds |-> 0]
  /\ depositAnswer = Unobserved
  /\ host = SoundHost
  /\ formAnswers = NoFormAnswers
  /\ decision = NoDecision

\* requests of clients, one at a time up to MaxReq at a time
Init ==
  /\ InitServer
  /\ treqs = <<>>
  /\ sentFile \in {JsonArray(S) : S \in LoadableSentSets}
  /\ sentDepositBookings = loadSet(sentFile)
  /\ reqs = [i \in 1..MaxReq |-> FreeReq]
  /\ callbacks = <<>>
  /\ sched = <<>>

Next ==
  \/ SendLinkDirect
  \/ DepositResend
  \/ SendLinkLookup
  \/ SendLinkSend
  \/ ConfirmationReceive
  \/ ConfirmationLookup
  \/ ConfirmationSend
  \/ Close
  \/ Sweep
  \/ Tick

Spec == Init /\ [][Next]_vars


\* ------------------------------------------------------------------------
\* The deposit workflow: callbacks, scheduler runs and plain send-link
\* requests side by side
\* ------------------------------------------------------------------------
\* POST /deposit/send-link without a force flag
SendLinkPlain ==
  /\ \E i \in DOMAIN reqs, b \in ClientBookingIDs :
       SendLinkReceive(i, b, "undefined", "direct")
  /\ UNCHANGED <<now, sentDepositBookings, sentFile, processedBookings,
                 callbackFile, callbacks, sched, formStatus, mailbox, pcall, holdVars>>

InitFlow ==
  /\ InitServer
  /\ treqs = <<>>
  /\ sentFile = NoFile
  /\ sentDepositBookings = loadSet(sentFile)
  /\ reqs = [i \in 1..MaxFlowReq |-> FreeReq]
  /\ callbacks = [c \in 1..MaxCallbacks |-> FreeCallback]
  /\ sched = [s \in 1..MaxRuns |-> FreeRun]

NextFlow ==
  \/ SendLinkPlain
  \/ SendLinkLookup
  \/ SendLinkSend
  \/ Close
  \/ CallbackReceive
  \/ CallbackLookup
  \/ CallbackDecide
  \/ CallbackQuestionnaire
  \/ CallbackSendLink
  \/ CallbackFinish
  \/ CallbackClose
  \/ SchedulerStart
  \/ SchedulerList
  \/ SchedulerDetails
  \/ SchedulerSendLink
  \/ SchedulerAwait

SpecFlow == InitFlow /\ [][NextFlow]_vars


\* ------------------------------------------------------------------------
\* planyoCall on its own
\* ------------------------------------------------------------------------
PlanyoCallStart ==
  /\ \E method \in Methods : PlanyoStart(method)
  /\ UNCHANGED <<now, sentDepositBookings, sentFile, processedBookings,
                 callbackFile, reqs, callbacks, sched, formStatus, mailbox, holdVars>>

PlanyoCallAnswer ==
  /\ \E resp \in BookingResponses \cup ListResponses : PlanyoAnswer(resp)
  /\ UNCHANGED <<now, sentDepositBookings, sentFile, processedBookings,
                 callbackFile, reqs, callbacks, sched, formStatus, mailbox, holdVars>>

\* fetchPlanyoBooking returns, its planyoCall having ended
FetchBookingReturn ==
  /\ pcall.pc = "done"
  /\ pcall.method = "get_reservation_data"
  /\ pcall' = [pcall EXCEPT !.pc = "returned", !.booking = bookingRecord(pcall.result)]
  /\ UNCHANGED <<now, sentDepositBookings, sentFile, processedBookings,
                 callbackFile, reqs, callbacks, sched, formStatus, mailbox, holdVars>>

InitPlanyo ==
  /\ InitServer
  /\ treqs = <<>>
  /\ sentFile = NoFile
  /\ sentDepositBookings = loadSet(sentFile)
  /\ reqs = <<>>
  /\ callbacks = <<>>
  /\ sched = <<>>

NextPlanyo ==
  \/ PlanyoCallStart
  \/ PlanyoCallAnswer
  \/ FetchBookingReturn
  \/ Tick

SpecPlanyo == InitPlanyo /\ [][NextPlanyo]_vars

\* ------------------------------------------------------------------------
\* The sweep on its own, over the sets loadSet may return
\* ------------------------------------------------------------------------
\* entries written by markDepositSent before start-up, and bare ids
LoadableEntries ==
  {SentEntry(b, t) : b \in BookingIDs, t \in 0..StartTime}
    \cup {String(b) : b \in BookingIDs}

InitSweep ==
  /\ InitServer
  /\ treqs = <<>>
  /\ sentFile \in {JsonArray(S) : S \in (SUBSET LoadableEntries) \ {{}}}
  /\ sentDepositBookings = loadSet(sentFile)
  /\ reqs = <<>>
  /\ callbacks = <<>>
  /\ sched = <<>>

NextSweep ==
  \/ Sweep
  \/ Tick

SpecSweep == InitSweep /\ [][NextSweep]_vars


\* ------------------------------------------------------------------------
\* Properties of POST /deposit/send-link and the sent set
\* ------------------------------------------------------------------------
\* slot i takes in a send-link request in this step
Received(i) ==
  reqs[i].pc = "free" /\ reqs'[i].pc # "free" /\ reqs'[i].kind = "send-link"

\* slot i is answered as a duplicate, with nothing handed to the sender
SkippedAsDuplicate(r) ==
  /\ r.pc = "done"
  /\ r.res.status = 200 /\ r.res.success /\ r.res.alreadySent
  /\ r.sendCalls = 0 /\ r.delivered = {}

\* C1: whatever the interleaving of callbacks, scheduler runs and send-link
\* requests without force, the customer of a booking gets at most one deposit
\* request inside the 3-day window: no send-link without force delivers to a
\* customer who already got one in the window.
C1_AtMostOneDepositEmail ==
  [][\A i \in DOMAIN reqs :
       (/\ reqs[i].kind = "send-link" /\ reqs[i].pc = "sending"
        /\ ~ForceIsSet(reqs[i].force)
        /\ reqs'[i].pc = "done" /\ "customer" \in reqs'[i].delivered)
         => ~CustomerMailedInWindow(reqs[i].bookingID)]_vars

\* C2: a send-link request without force for a booking that has a recent
\* sent-record is answered with success at once, no call to the sender made
\* and no message delivered.
C2_RecentRecordSuppresses ==
  [][\A i \in DOMAIN reqs :
       (/\ Received(i)
        /\ ~ForceIsSet(reqs'[i].force)
        /\ HasActiveRecord(reqs'[i].bookingID))
         => /\ SkippedAsDuplicate(reqs'[i])
            /\ mailbox' = mailbox]_vars

C2_Witness ==
  \E i \in DOMAIN reqs :
    /\ reqs[i].kind = "send-link" /\ ~ForceIsSet(reqs[i].force)
    /\ SkippedAsDuplicate(reqs[i])
    /\ HasActiveRecord(reqs[i].bookingID)
    /\ reqs[i].bookingID \in ClientBookingIDs

\* C3: once a send-link without force has sent its email, the booking has a
\* sent-record for as long as the window lasts, and the next send-link without
\* force inside the window sends no email.
C3_SendMarksAndNextIsSuppressed ==
  /\ [](\A b \in BookingIDs : CompletedSendInWindow(b) => HasActiveRecord(b))
  /\ [][\A i \in DOMAIN reqs :
          (/\ Received(i)
           /\ ~ForceIsSet(reqs'[i].force)
           /\ CompletedSendInWindow(reqs'[i].bookingID))
            => /\ SkippedAsDuplicate(reqs'[i])
               /\ mailbox' = mailbox]_vars

C3_Witness ==
  \E i \in DOMAIN reqs :
    /\ reqs[i].kind = "send-link" /\ ~ForceIsSet(reqs[i].force)
    /\ SkippedAsDuplicate(reqs[i])
    /\ CompletedSendInWindow(reqs[i].bookingID)
    /\ now > mailbox[reqs[i].bookingID].ok

\* C4: a send-link request with force set (true, "true", 1 or "1", or one
\* that came through POST /deposit/resend) is never answered as a duplicate,
\* and once the lookup has found an email the sender is called for the
\* customer and the admin, sent-record or not.
C4_ForceBypassesSuppression ==
  \A i \in DOMAIN reqs :
    (/\ reqs[i].kind = "send-link"
     /\ (ForceIsSet(reqs[i].force) \/ reqs[i].via = "resend"))
      => /\ ~reqs[i].res.alreadySent
         /\ (reqs[i].pc = "done" => reqs[i].email # Unknown)
         /\ (reqs[i].email \notin {Unknown, Null} => reqs[i].sendCalls = 2)

C4_Witness ==
  \E i \in DOMAIN reqs :
    /\ reqs[i].kind = "send-link" /\ reqs[i].force = "str:1"
    /\ reqs[i].pc = "done" /\ reqs[i].sendCalls = 2
    /\ reqs[i].delivered = {"customer", "admin"}
    /\ HasActiveRecord(reqs[i].bookingID)

\* C5: a send-link request with force set leaves the sent set, in memory and
\* on disk, as it was, whatever the outcome of its send.
C5_ForcedSendLeavesStore ==
  [][\A i \in DOMAIN reqs :
       (/\ reqs[i].kind = "send-link" /\ ForceIsSet(reqs[i].force)
        /\ reqs'[i] # reqs[i])
         => /\ sentDepositBookings' = sentDepositBookings
            /\ sentFile' = sentFile]_vars

C5_Witness ==
  \E i \in DOMAIN reqs :
    /\ reqs[i].kind = "send-link" /\ ForceIsSet(reqs[i].force)
    /\ reqs[i].pc = "done" /\ reqs[i].res.success
    /\ reqs[i].delivered = {"customer", "admin"}
    /\ ~HasActiveRecord(reqs[i].bookingID)

\* C6: when the lookup of a send-link request yields no email, the caller
\* gets an error, nobody gets a message and the booking is not marked sent.
C6_NoEmailNoSend ==
  [][\A i \in DOMAIN reqs :
       (/\ reqs[i].kind = "send-link" /\ reqs[i].pc = "lookup"
        /\ reqs'[i].pc # "lookup" /\ reqs'[i].email = Null)
         => /\ reqs'[i].pc = "done"
            /\ ~reqs'[i].res.success /\ reqs'[i].res.error # "none"
            /\ reqs'[i].sendCalls = 0 /\ reqs'[i].delivered = {}
            /\ sentDepositBookings' = sentDepositBookings
            /\ sentFile' = sentFile
            /\ mailbox' = mailbox]_vars

C6_Witness ==
  \E i \in DOMAIN reqs :
    /\ reqs[i].kind = "send-link" /\ reqs[i].pc = "done"
    /\ reqs[i].email = Null /\ ~reqs[i].res.success
    /\ ~HasActiveRecord(reqs[i].bookingID)

\* C7: a request that ends because the booking has no email, in send-link or
\* in deposit-confirmation, is answered with HTTP status 400.
C7_MissingEmailIs400 ==
  \A i \in DOMAIN reqs :
    (reqs[i].pc = "done" /\ reqs[i].email = Null) => reqs[i].res.status = 400

\* ------------------------------------------------------------------------
\* Properties of planyoCall
\* ------------------------------------------------------------------------
\* the answer is an invalid-timestamp error that names the current timestamp
ReportsDrift(resp) ==
  /\ resp.kind = "json" /\ resp.code = 1
  /\ \E T \in ServerTimes : resp.msg = <<InvalidTimestampTok, CurrentTimestampTok, T>>

ReportedTime(resp) == resp.msg[3]

\* the answer is a success of the remote service
IsSuccess(resp) == resp.kind = "json" /\ resp.code = 0

LastResponse == pcall.responses[Len(pcall.responses)]

\* C8: when the first answer to planyoCall is an invalid-timestamp error
\* naming a timestamp T, planyoCall sends exactly one more request, signed
\* with T; whatever the answers, it never sends a third.
C8_DriftRetriesOnceWithReportedTime ==
  /\ Len(pcall.requests) <= 2
  /\ Len(pcall.responses) <= Len(pcall.requests)
  /\ (Len(pcall.responses) >= 1 /\ ReportsDrift(pcall.responses[1])) =>
       /\ Len(pcall.requests) = 2
       /\ pcall.requests[2].method = pcall.method
       /\ pcall.requests[2].hash_timestamp = ReportedTime(pcall.responses[1])
       /\ pcall.requests[2].hash_key =
            md5(<<PLANYO_HASH_KEY, ReportedTime(pcall.responses[1]), pcall.method>>)
       /\ (pcall.pc = "done" => Len(pcall.responses) = 2)

C8_Witness ==
  /\ pcall.pc = "done"
  /\ Len(pcall.responses) = 2
  /\ ReportsDrift(pcall.responses[1])
  /\ ReportsDrift(pcall.responses[2])
  /\ pcall.requests[1].hash_timestamp # pcall.requests[2].hash_timestamp

HasTimestamp(entry) ==
  \E b \in BookingIDs, t \in 0..MaxTime : entry = SentEntry(b, t)

RecordTime(entry) == entry[3]

\* C10, as stated: the sweep removes exactly the records older than the
\* 3-day window; nothing is removed for another reason than its age.
C10_SweepRemovesExactlyOlder ==
  [][now' = now =>
       sentDepositBookings' =
         {entry \in sentDepositBookings :
            ~(HasTimestamp(entry) /\ now - RecordTime(entry) > THREE_DAYS_MS)}]_vars

\* C10, amended: the sweep keeps exactly the records that carry a timestamp
\* less than 3 days old; it removes the records that are 3 days old or
\* older, and the entries without a timestamp.
C10_SweepKeepsExactlyYounger ==
  [][now' = now =>
       sentDepositBookings' =
         {entry \in sentDepositBookings :
            HasTimestamp(entry) /\ now - RecordTime(entry) < THREE_DAYS_MS}]_vars

C10_Witness ==
  /\ sentDepositBookings = {}
  /\ sentFile = JsonArray({})

\* ------------------------------------------------------------------------
\* The retention window
\* ------------------------------------------------------------------------
\* booking b has sent-records, and each of them is older than 3 days
AllRecordsOlder(b) ==
  /\ \E t \in 0..now : SentEntry(b, t) \in sentDepositBookings
  /\ \A t \in 0..now :
       SentEntry(b, t) \in sentDepositBookings => now - t > THREE_DAYS_MS

\* C11: alreadySentRecently(b) is true while a sent-record of b is younger
\* than 3 days and false once every sent-record of b is older than 3 days,
\* swept or not; a send-link without force received then is not answered as
\* a duplicate, and sends once its lookup has found an email.
C11_SuppressionIsTimeBoxed ==
  /\ [](\A b \in BookingIDs :
          /\ HasActiveRecord(b) => alreadySentRecently(b)
          /\ AllRecordsOlder(b) => ~alreadySentRecently(b))
  /\ [][\A i \in DOMAIN reqs :
          (/\ Received(i)
           /\ ~ForceIsSet(reqs'[i].force)
           /\ AllRecordsOlder(reqs'[i].bookingID))
            => reqs'[i].pc = "lookup"]_vars
  /\ [](\A i \in DOMAIN reqs :
          (/\ reqs[i].kind = "send-link" /\ ~ForceIsSet(reqs[i].force)
           /\ ~reqs[i].res.alreadySent
           /\ reqs[i].email \notin {Unknown, Null})
            => reqs[i].sendCalls = 2)

\* an expired record is still in the set, unswept, and a send-link without
\* force has mailed the customer again
C11_Witness ==
  \E i \in DOMAIN reqs :
    /\ reqs[i].kind = "send-link" /\ ~ForceIsSet(reqs[i].force)
    /\ reqs[i].pc = "done" /\ reqs[i].res.success /\ ~reqs[i].res.alreadySent
    /\ "customer" \in reqs[i].delivered
    /\ \E t \in 0..now :
         /\ SentEntry(reqs[i].bookingID, t) \in sentDepositBookings
         /\ now - t > THREE_DAYS_MS

\* ------------------------------------------------------------------------
\* Send-link requests without force that overlap, while the clock runs
\* ------------------------------------------------------------------------
InitOverlap ==
  /\ InitServer
  /\ treqs = <<>>
  /\ sentFile = NoFile
  /\ sentDepositBookings = loadSet(sentFile)
  /\ reqs = [i \in 1..MaxFlowReq |-> FreeReq]
  /\ callbacks = <<>>
  /\ sched = <<>>

NextOverlap ==
  \/ SendLinkPlain
  \/ SendLinkLookup
  \/ SendLinkSend
  \/ Close
  \/ Sweep
  \/ Tick

SpecOverlap == InitOverlap /\ [][NextOverlap]_vars

\* the sent-records of booking b that are younger than 3 days
ActiveRecords(b) ==
  {t \in 0..now : SentEntry(b, t) \in sentDepositBookings /\ now - t < THREE_DAYS_MS}

\* C12: in every reachable state the sent set holds at most one record
\* younger than 3 days per booking.
C12_AtMostOneActiveRecord ==
  \A b \in BookingIDs : Cardinality(ActiveRecords(b)) <= 1

\* ------------------------------------------------------------------------
\* POST /planyo/callback on its own: callbacks and the send-link requests
\* they issue
\* ------------------------------------------------------------------------
InitCallback ==
  /\ InitServer
  /\ treqs = <<>>
  /\ sentFile = NoFile
  /\ sentDepositBookings = loadSet(sentFile)
  /\ reqs = [i \in 1..MaxCallbacks |-> FreeReq]
  /\ callbacks = [c \in 1..MaxCallbacks |-> FreeCallback]
  /\ sched = <<>>

NextCallback ==
  \/ CallbackReceive
  \/ CallbackLookup
  \/ CallbackDecide
  \/ CallbackQuestionnaire
  \/ CallbackSendLink
  \/ SendLinkLookup
  \/ SendLinkSend
  \/ CallbackFinish
  \/ CallbackClose

SpecCallback == InitCallback /\ [][NextCallback]_vars

\* C13: once a booking is in the processed set, a further callback for it is
\* a no-op: it is answered at once, sends no questionnaire and no deposit
\* email, issues no send-link request and changes nothing that is stored.
C13_ReplayedCallbackIsNoOp ==
  [][\A c \in DOMAIN callbacks :
       (/\ callbacks[c].pc = "free" /\ callbacks'[c].pc # "free"
        /\ callbacks'[c].bookingID \in processedBookings)
         => /\ callbacks'[c].pc = "done"
            /\ callbacks'[c].status = 200
            /\ callbacks'[c].child = 0
            /\ mailbox' = mailbox
            /\ reqs' = reqs
            /\ processedBookings' = processedBookings
            /\ callbackFile' = callbackFile
            /\ sentDepositBookings' = sentDepositBookings
            /\ sentFile' = sentFile
            /\ formStatus' = formStatus]_vars

C13_Witness ==
  \E c \in DOMAIN callbacks :
    /\ callbacks[c].pc = "done"
    /\ callbacks[c].body = "Already processed"
    /\ callbacks[c].bookingID \in processedBookings
    /\ \A i \in DOMAIN reqs : reqs[i].pc = "free"

\* ------------------------------------------------------------------------
\* Order of sending and marking
\* ------------------------------------------------------------------------
\* C14: a sent-record enters the set only in the step in which the sender
\* has taken the deposit request of that booking, for the customer and the
\* admin; a send-link that failed or found no email adds none.
C14_RecordOnlyAfterDispatch ==
  [][\A entry \in sentDepositBookings' \ sentDepositBookings :
       \E i \in DOMAIN reqs :
         /\ reqs[i].kind = "send-link" /\ reqs[i].pc = "sending"
         /\ reqs'[i].pc = "done"
         /\ reqs'[i].delivered = {"customer", "admin"}
         /\ reqs'[i].email \notin {Unknown, Null}
         /\ entry = SentEntry(reqs[i].bookingID, now)
         /\ mailbox'[reqs[i].bookingID].cust = now]_vars

\* a record written by this run, with its email dispatched at the same time
C14_Witness ==
  \E b \in ClientBookingIDs, t \in StartTime..now :
    /\ SentEntry(b, t) \in sentDepositBookings
    /\ mailbox[b].cust = t
    /\ mailbox[b].ok = t

\* ------------------------------------------------------------------------
\* Properties of fetchPlanyoBooking and of planyoCall's requests
\* ------------------------------------------------------------------------
BookingFields == {"resource", "start", "end", "firstName", "lastName", "email"}

\* C15: whatever the booking service answered (rejected request, error,
\* body that is not JSON, success without data), fetchPlanyoBooking returns
\* a record of the six fields resource, start, end, firstName, lastName and
\* email, and its email is null whenever the lookup failed.
C15_LookupAlwaysReturnsRecord ==
  pcall.pc = "returned" =>
    /\ DOMAIN pcall.booking = BookingFields
    /\ ~IsSuccess(LastResponse) => pcall.booking = Sentinel
    /\ ~IsSuccess(LastResponse) => pcall.booking.email = Null
    /\ IsSuccess(LastResponse) => pcall.booking.email = LastResponse.data.email

C15_Witness ==
  /\ pcall.pc = "returned"
  /\ LastResponse.kind = "neterr"
  /\ pcall.result.threw
  /\ pcall.booking.email = Null

\* C16: when the answer is a body that is not JSON, planyoCall does not
\* throw: it returns ok = false with response_code 1 and a message, and it
\* sends no further request.
C16_NonJsonIsStructuredError ==
  /\ (Len(pcall.responses) >= 1 /\ pcall.responses[1].kind = "text")
       => /\ Len(pcall.requests) = 1
          /\ pcall.pc \in {"done", "returned"}
  /\ (pcall.pc \in {"done", "returned"} /\ LastResponse.kind = "text")
       => /\ ~pcall.result.threw
          /\ ~pcall.result.ok
          /\ pcall.result.json = NonJsonMessage
          /\ pcall.result.json.code = 1
          /\ Len(pcall.requests) = Len(pcall.responses)

C16_Witness ==
  /\ pcall.pc = "done"
  /\ Len(pcall.responses) = 1
  /\ LastResponse.kind = "text"
  /\ ~pcall.result.ok

\* C17: every request of planyoCall carries as hash_key the md5 of the
\* secret, the hash_timestamp of that same request and the method; the
\* retry is signed anew, with the corrected timestamp.
C17_EveryRequestSignedWithItsTimestamp ==
  /\ \A k \in 1..Len(pcall.requests) :
       /\ pcall.requests[k].method = pcall.method
       /\ pcall.requests[k].hash_key =
            md5(<<PLANYO_HASH_KEY, pcall.requests[k].hash_timestamp, pcall.method>>)
  /\ (/\ Len(pcall.requests) = 2
      /\ pcall.requests[2].hash_timestamp # pcall.requests[1].hash_timestamp)
       => pcall.requests[2].hash_key # pcall.requests[1].hash_key

C17_Witness ==
  /\ Len(pcall.requests) = 2
  /\ pcall.requests[2].hash_timestamp \in ServerTimes
  /\ pcall.requests[2].hash_timestamp # pcall.requests[1].hash_timestamp
  /\ pcall.requests[2].hash_key # pcall.requests[1].hash_key

\* ------------------------------------------------------------------------
\* Deposit holds: the Payment Service (Stripe PaymentIntents) as the
\* handlers call it, and the handlers that create, cancel and capture
\* ------------------------------------------------------------------------
\* a PaymentIntent: metadata.bookingID, status, capture_method; origin names
\* the handler that created it and notices counts the 'Deposit Hold
\* Canceled' messages the cancel handler had delivered to the customer
NewIntent(b, origin) ==
  [bookingID |-> b, status |-> "requires_payment_method",
   capture_method |-> "manual", origin |-> origin, notices |-> 0]

\* a handler that takes up the open intent of the booking, if there is one
stripeCreateReuse(b, origin) ==
  IF \E h \in DOMAIN paymentIntents :
       /\ paymentIntents[h].bookingID = b
       /\ paymentIntents[h].status \in {"requires_payment_method", "requires_capture"}
  THEN paymentIntents
  ELSE Append(paymentIntents, NewIntent(b, origin))

\* a handler that cancels the holds the booking has before it makes one
stripeCreateReplacing(b, origin) ==
  Append([h \in DOMAIN paymentIntents |->
            IF /\ paymentIntents[h].bookingID = b
               /\ paymentIntents[h].status \in {"requires_payment_method",
                                                "requires_capture"}
            THEN [paymentIntents[h] EXCEPT !.status = "canceled"]
            ELSE paymentIntents[h]],
         NewIntent(b, origin))

\* stripe.paymentIntents.create({ ..., capture_method: "manual",
\* metadata: { bookingID } })
stripeCreate(b, origin) == Append(paymentIntents, NewIntent(b, origin))

\* stripe.paymentIntents.cancel(id): the service cancels an intent that is
\* not yet captured or canceled, and rejects the call otherwise; up is
\* whether the call reaches the service
stripeCancel(h, up) ==
  IF /\ up
     /\ h \in DOMAIN paymentIntents
     /\ paymentIntents[h].status \in {"requires_payment_method", "requires_capture"}
  THEN [threw |-> FALSE,
        intents |-> [paymentIntents EXCEPT ![h].status = "canceled"]]
  ELSE [threw |-> TRUE, intents |-> paymentIntents]

\* stripe.paymentIntents.capture(id): the service captures an intent that
\* is in requires_capture, and rejects the call otherwise
stripeCapture(h, up) ==
  IF /\ up
     /\ h \in DOMAIN paymentIntents
     /\ paymentIntents[h].status = "requires_capture"
  THEN [threw |-> FALSE,
        intents |-> [paymentIntents EXCEPT ![h].status = "succeeded"]]
  ELSE [threw |-> TRUE, intents |-> paymentIntents]

FreeTreq == [pc |-> "free", kind |-> "none", hold |-> 0, status |-> 0]

\* the capture handler answering res.json(captured) outside its try
captureStatusAlwaysOk(r) == 200

\* POST /terminal/capture: res.json(captured), or status 500 in the catch
captureStatus(r) == IF r.threw THEN 500 ELSE 200

\* the cancel handler going on to the emails whatever the call returned
cancelProceedsAlways(r) == TRUE

\* POST /terminal/cancel: the await of stripe.paymentIntents.cancel
\* returned, the handler goes on to the lookup and the emails
cancelProceeds(r) == ~r.threw

\* what becomes of a request whose async handler rejects: Express 4 leaves
\* it without an answer (and the rejection unhandled), Express 5 passes the
\* error to its default handler, which answers 500 with its own page
EscapedAnswers ==
  {[handler |-> "pay", code |-> 0, body |-> "none", caught |-> FALSE],
   [handler |-> "pay", code |-> 500, body |-> "default error page", caught |-> FALSE]}

\* GET /deposit/pay/:bookingID has no try / catch: res.send(page) after the
\* create call resolved, and else the rejection leaves the handler
payPageAnswer(created, a) ==
  IF created
  THEN [handler |-> "pay", code |-> 200, body |-> "page", caught |-> FALSE]
  ELSE a

\* POST /deposit/create-intent: res.json({ clientSecret }), or the catch
\* block with res.status(500).json({ error: err.message })
createIntentAnswer(created) ==
  IF created
  THEN [handler |-> "create-intent", code |-> 200, body |-> "clientSecret",
        caught |-> FALSE]
  ELSE [handler |-> "create-intent", code |-> 500, body |-> "err.message",
        caught |-> TRUE]

\* the answer as it is kept: only where the answers are recorded
Observed(a) == IF depositAnswer = Unobserved THEN Unobserved ELSE a

\* GET /deposit/pay/:bookingID: lookup, then create; the page is sent when
\* the create call resolved. The handler has no try / catch: a rejected
\* create leaves the request unanswered and nothing created
PayPage ==
  /\ \E b \in BookingIDs, created \in BOOLEAN, a \in EscapedAnswers :
       /\ Len(paymentIntents) < MaxHolds
       /\ IF created
          THEN /\ paymentIntents' = stripeCreate(b, "page")
               /\ pageViews' = [pageViews EXCEPT ![b] = @ + 1]
          ELSE UNCHANGED <<paymentIntents, pageViews>>
       /\ depositAnswer' = Observed(payPageAnswer(created, a))
  /\ UNCHANGED <<serverVars, squery, hooks, hookMail, treqs, host, formAnswers, decision>>

\* POST /deposit/create-intent with { bookingID, amount }
CreateIntent ==
  /\ \E b \in ClientBookingIDs, created \in BOOLEAN :
       /\ Len(paymentIntents) < MaxHolds
       /\ IF created
          THEN paymentIntents' = stripeCreate(b, "intent")
          ELSE UNCHANGED paymentIntents
       /\ depositAnswer' = Observed(createIntentAnswer(created))
  /\ UNCHANGED <<serverVars, squery, hooks, hookMail, treqs, pageViews,
                 host, formAnswers, decision>>

\* stripe.confirmCardPayment(clientSecret) in the customer's browser: the
\* card is authorised and the intent waits for capture
CardConfirmed ==
  /\ \E h \in DOMAIN paymentIntents :
       /\ paymentIntents[h].status = "requires_payment_method"
       /\ paymentIntents' = [paymentIntents EXCEPT ![h].status = "requires_capture"]
  /\ UNCHANGED <<serverVars, deskVars, treqs, pageViews>>

\* POST /terminal/capture { payment_intent_id }
TerminalCapture ==
  /\ \E i \in DOMAIN treqs, h \in 1..MaxHolds, up \in BOOLEAN :
       /\ treqs[i].pc = "free"
       /\ \A j \in 1..(i - 1) : treqs[j].pc # "free"
       /\ LET r == stripeCapture(h, up)
          IN /\ paymentIntents' = r.intents
             /\ treqs' = [treqs EXCEPT ![i] =
                            [pc |-> "done", kind |-> "capture", hold |-> h,
                             status |-> captureStatus(r)]]
  /\ UNCHANGED <<serverVars, deskVars, pageViews>>

\* POST /terminal/cancel { payment_intent_id } up to the return of
\* stripe.paymentIntents.cancel
TerminalCancel ==
  /\ \E i \in DOMAIN treqs, h \in 1..MaxHolds, up \in BOOLEAN :
       /\ treqs[i].pc = "free"
       /\ \A j \in 1..(i - 1) : treqs[j].pc # "free"
       /\ LET r == stripeCancel(h, up)
          IN /\ paymentIntents' = r.intents
             /\ treqs' = [treqs EXCEPT ![i] =
                            IF cancelProceeds(r) /\ h \in DOMAIN paymentIntents
                            THEN [pc |-> "notify", kind |-> "cancel", hold |-> h,
                                  status |-> 0]
                            ELSE [pc |-> "done", kind |-> "cancel", hold |-> h,
                                  status |-> 500]]
  /\ UNCHANGED <<serverVars, deskVars, pageViews>>

\* POST /terminal/cancel after the cancel: fetchPlanyoBooking, then
\* Promise.all of the customer's and the admin's message, then the answer
CancelNotify ==
  /\ \E i \in DOMAIN treqs, bk \in BookingOutcomes,
        okCustomer \in BOOLEAN, okAdmin \in BOOLEAN :
       /\ treqs[i].pc = "notify"
       /\ IF bk.email = Null
          THEN /\ treqs' = [treqs EXCEPT ![i] = [@ EXCEPT !.pc = "done", !.status = 200]]
               /\ UNCHANGED paymentIntents
          ELSE /\ treqs' = [treqs EXCEPT ![i] =
                              [@ EXCEPT !.pc = "done",
                                        !.status = IF okCustomer /\ okAdmin
                                                   THEN 200 ELSE 500]]
               /\ paymentIntents' =
                    [paymentIntents EXCEPT ![treqs[i].hold].notices =
                       IF okCustomer /\ @ < 2 THEN @ + 1 ELSE @]
  /\ UNCHANGED <<serverVars, deskVars, pageViews>>

\* the client has the answer: the request is over
TerminalClose ==
  /\ \E i \in DOMAIN treqs :
       /\ treqs[i].pc = "done"
       /\ treqs' = [treqs EXCEPT ![i] = FreeTreq]
  /\ UNCHANGED <<serverVars, deskVars, paymentIntents, pageViews>>

InitHold ==
  /\ InitServer
  /\ treqs = [i \in 1..MaxTerminal |-> FreeTreq]
  /\ sentFile = NoFile
  /\ sentDepositBookings = loadSet(sentFile)
  /\ reqs = <<>>
  /\ callbacks = <<>>
  /\ sched = <<>>

NextHold ==
  \/ PayPage
  \/ CreateIntent
  \/ CardConfirmed
  \/ TerminalCapture
  \/ TerminalCancel
  \/ CancelNotify
  \/ TerminalClose

SpecHold == InitHold /\ [][NextHold]_vars

\* ------------------------------------------------------------------------
\* Properties of the deposit holds
\* ------------------------------------------------------------------------
\* slot i takes in a request of the given kind for an intent that is canceled
ReceivedForCanceled(i, kind) ==
  /\ treqs[i].pc = "free" /\ treqs'[i].kind = kind
  /\ treqs'[i].hold \in DOMAIN paymentIntents
  /\ paymentIntents[treqs'[i].hold].status = "canceled"

\* C18: a hold that is canceled stays canceled whatever is requested, and
\* POST /terminal/capture for it is answered with an error.
C18_CanceledHoldIsNeverCaptured ==
  /\ [][\A h \in DOMAIN paymentIntents :
          paymentIntents[h].status = "canceled"
            => /\ h \in DOMAIN paymentIntents'
               /\ paymentIntents'[h].status = "canceled"]_vars
  /\ [][\A i \in DOMAIN treqs :
          ReceivedForCanceled(i, "capture")
            => /\ treqs'[i].pc = "done"
               /\ treqs'[i].status = 500
               /\ paymentIntents' = paymentIntents]_vars

C18_Witness ==
  \E i \in DOMAIN treqs :
    /\ treqs[i].kind = "capture" /\ treqs[i].pc = "done"
    /\ treqs[i].status = 500
    /\ treqs[i].hold \in DOMAIN paymentIntents
    /\ paymentIntents[treqs[i].hold].status = "canceled"
    /\ paymentIntents[treqs[i].hold].notices = 1

\* C19: POST /terminal/cancel for a hold that is canceled already is
\* answered with an error and sends no message; over any number of cancel
\* requests the customer gets the cancel handler's notice of a hold at most
\* once.
C19_SecondCancelIsRejected ==
  /\ [][\A i \in DOMAIN treqs :
          ReceivedForCanceled(i, "cancel")
            => /\ treqs'[i].pc = "done"
               /\ treqs'[i].status = 500
               /\ paymentIntents' = paymentIntents]_vars
  /\ [](\A h \in DOMAIN paymentIntents : paymentIntents[h].notices <= 1)

C19_Witness ==
  \E i \in DOMAIN treqs :
    /\ treqs[i].kind = "cancel" /\ treqs[i].pc = "done"
    /\ treqs[i].status = 500
    /\ treqs[i].hold \in DOMAIN paymentIntents
    /\ paymentIntents[treqs[i].hold].status = "canceled"
    /\ paymentIntents[treqs[i].hold].notices = 1
    /\ paymentIntents[treqs[i].hold].origin = "page"

\* the holds of booking b that the deposit page created
PageHolds(b) ==
  {h \in DOMAIN paymentIntents :
     paymentIntents[h].bookingID = b /\ paymentIntents[h].origin = "page"}

\* C20: every deposit page served has created exactly one new hold with
\* manual capture tagged with its booking, open holds of the booking or
\* not; after k pages served the booking has k holds made by the page.
C20_EachPageViewCreatesOneHold ==
  /\ [][\A b \in BookingIDs :
          pageViews'[b] # pageViews[b]
            => /\ pageViews'[b] = pageViews[b] + 1
               /\ paymentIntents' =
                    Append(paymentIntents, paymentIntents'[Len(paymentIntents')])
               /\ paymentIntents'[Len(paymentIntents')].bookingID = b
               /\ paymentIntents'[Len(paymentIntents')].capture_method = "manual"
               /\ paymentIntents'[Len(paymentIntents')].origin = "page"
               /\ paymentIntents'[Len(paymentIntents')].status =
                    "requires_payment_method"]_vars
  /\ [](\A b \in BookingIDs : pageViews[b] = Cardinality(PageHolds(b)))

C20_Witness ==
  \E b \in BookingIDs :
    /\ pageViews[b] = 2
    /\ PageHolds(b) = {1, 2}
    /\ paymentIntents[1].status = "requires_capture"
    /\ paymentIntents[2].status = "requires_payment_method"


\* ------------------------------------------------------------------------
\* The handlers that read the holds: status, listings, POST /webhook
\* ------------------------------------------------------------------------
\* limit of the page GET /deposit/status and GET /terminal/list ask for
STATUS_LIMIT == 100

\* limit of the page GET /terminal/list-all asks for
LIST_ALL_LIMIT == 50

\* stripe.paymentIntents.list({ limit }).data: one page of the service's
\* intents, the newest first, as their ids
stripeList(limit) ==
  LET n == Len(paymentIntents)
      m == IF limit < n THEN limit ELSE n
  IN [k \in 1..m |-> n + 1 - k]

\* paymentIntents.data.filter(pi => pi.metadata &&
\*   String(pi.metadata.bookingID) === bookingID)
matching(page, b) ==
  SelectSeq(page, LAMBDA h : paymentIntents[h].bookingID = b)

\* a handler that counts a canceled hold as a deposit
successIntentAnyTerminal(page, b) ==
  LET found == SelectSeq(SelectSeq(page, LAMBDA h : paymentIntents[h].bookingID = b),
                         LAMBDA h : paymentIntents[h].status \in
                                      {"succeeded", "requires_capture", "canceled"})
  IN IF found = <<>> THEN 0 ELSE Head(found)

\* matching.find(pi => pi.status === "succeeded" ||
\*   pi.status === "requires_capture"); 0 stands for undefined
successIntent(page, b) ==
  LET found == SelectSeq(matching(page, b),
                         LAMBDA h : paymentIntents[h].status \in
                                      {"succeeded", "requires_capture"})
  IN IF found = <<>> THEN 0 ELSE Head(found)

\* the answer of GET /deposit/status/:bookingID; listed is whether
\* stripe.paymentIntents.list resolved
depositStatus(b, listed) ==
  IF ~listed
  THEN [bookingID |-> b, code |-> 500, success |-> FALSE, hold |-> 0,
        status |-> "none"]
  ELSE LET h == successIntent(stripeList(STATUS_LIMIT), b)
       IN IF h # 0
          THEN [bookingID |-> b, code |-> 200, success |-> TRUE, hold |-> h,
                status |-> paymentIntents[h].status]
          ELSE [bookingID |-> b, code |-> 200, success |-> FALSE, hold |-> 0,
                status |-> "none"]

\* GET /deposit/status/:bookingID
DepositStatus ==
  /\ squery.kind = "none"
  /\ \E b \in BookingIDs, listed \in BOOLEAN :
       LET a == depositStatus(b, listed)
       IN squery' = [kind |-> "status",
                     bookingID |-> a.bookingID, code |-> a.code,
                     success |-> a.success, hold |-> a.hold,
                     status |-> a.status, listed |-> <<>>]
  /\ UNCHANGED <<serverVars, paymentIntents, treqs, pageViews, hooks, hookMail,
                 depositAnswer, host, formAnswers, decision>>

\* GET /terminal/list-all: the holds of the page that wait for capture,
\* each with the booking fetchPlanyoBooking returns for it
ListAll ==
  /\ squery.kind = "none"
  /\ \E listed \in BOOLEAN :
       squery' = [NoStatusQuery EXCEPT
                    !.kind = "list-all",
                    !.code = IF listed THEN 200 ELSE 500,
                    !.listed = IF listed
                               THEN SelectSeq(stripeList(LIST_ALL_LIMIT),
                                      LAMBDA h : paymentIntents[h].status
                                                   = "requires_capture")
                               ELSE <<>>]
  /\ UNCHANGED <<serverVars, paymentIntents, treqs, pageViews, hooks, hookMail,
                 depositAnswer, host, formAnswers, decision>>

\* GET /terminal/list/:bookingID: the holds of the page tagged with the
\* booking, whatever their status
ListBooking ==
  /\ squery.kind = "none"
  /\ \E b \in BookingIDs, listed \in BOOLEAN :
       squery' = [NoStatusQuery EXCEPT
                    !.kind = "list", !.bookingID = b,
                    !.code = IF listed THEN 200 ELSE 500,
                    !.listed = IF listed
                               THEN matching(stripeList(STATUS_LIMIT), b)
                               ELSE <<>>]
  /\ UNCHANGED <<serverVars, paymentIntents, treqs, pageViews, hooks, hookMail,
                 depositAnswer, host, formAnswers, decision>>


\* the client has the answer of its status or list request
StatusClose ==
  /\ squery.kind # "none"
  /\ squery' = NoStatusQuery
  /\ UNCHANGED <<serverVars, paymentIntents, treqs, pageViews, hooks, hookMail,
                 depositAnswer, host, formAnswers, decision>>

\* the events the Payment Service signs and posts
EventTypes ==
  {"payment_intent.succeeded", "payment_intent.payment_failed",
   "payment_intent.canceled", "charge.refunded", "customer.created"}

\* the status of the intent an event of the Payment Service is about
EventStatus(type) ==
  CASE type = "payment_intent.succeeded" -> {"succeeded"}
    [] type = "payment_intent.payment_failed" -> {"requires_payment_method"}
    [] type = "payment_intent.canceled" -> {"canceled"}
    [] type = "charge.refunded" -> {"succeeded"}
    [] OTHER -> {"requires_payment_method", "requires_capture", "succeeded",
                 "canceled"}

\* POST /webhook behind constructEvent: the switch on event.type up to its
\* first await
dispatchEvent(type, h, b) ==
  [FreeHook EXCEPT
     !.type = type, !.hold = h, !.bookingID = b,
     !.pc = IF type = "payment_intent.canceled" THEN "lookup"
            ELSE IF type = "charge.refunded" THEN "retrieve"
            ELSE "done",
     !.status = IF type \in {"payment_intent.canceled", "charge.refunded"}
                THEN 0 ELSE 200]

\* a handler that reads the event without verifying it
webhookReceiveUnverified(sigOk, type, h, b) ==
  [dispatchEvent(type, h, b) EXCEPT !.signed = sigOk]

\* POST /webhook: stripe.webhooks.constructEvent(req.body, sig, secret)
\* throws when the signature does not verify and the catch answers 400
webhookReceive(sigOk, type, h, b) ==
  IF ~sigOk
  THEN [FreeHook EXCEPT !.pc = "done", !.type = type, !.hold = h,
                        !.bookingID = b, !.status = 400, !.signed = FALSE]
  ELSE dispatchEvent(type, h, b)

\* POST /webhook arrives: an event of the Payment Service about one of its
\* intents, or a request of anybody with a signature that does not verify
WebhookReceive ==
  /\ \E k \in DOMAIN hooks, sigOk \in BOOLEAN, type \in EventTypes,
        h \in 1..MaxHolds, b \in BookingIDs :
       /\ hooks[k].pc = "free"
       /\ \A j \in 1..(k - 1) : hooks[j].pc # "free"
       /\ sigOk => /\ h \in DOMAIN paymentIntents
                   /\ paymentIntents[h].bookingID = b
                   /\ paymentIntents[h].status \in EventStatus(type)
       /\ hooks' = [hooks EXCEPT ![k] = webhookReceive(sigOk, type, h, b)]
  /\ UNCHANGED <<serverVars, paymentIntents, treqs, pageViews, squery, hookMail,
                 depositAnswer, host, formAnswers, decision>>

\* case "charge.refunded": stripe.paymentIntents.retrieve(obj.payment_intent)
\* in the inner try, whose catch logs and lets the handler answer
WebhookRetrieve ==
  /\ \E k \in DOMAIN hooks, retrieved \in BOOLEAN :
       /\ hooks[k].pc = "retrieve"
       /\ hooks' = [hooks EXCEPT ![k] =
                      IF retrieved THEN [@ EXCEPT !.pc = "lookup"]
                      ELSE [@ EXCEPT !.pc = "done", !.status = 200]]
  /\ UNCHANGED <<serverVars, paymentIntents, treqs, pageViews, squery, hookMail,
                 depositAnswer, host, formAnswers, decision>>

\* fetchPlanyoBooking(bookingID), then if (booking.email)
WebhookLookup ==
  /\ \E k \in DOMAIN hooks, bk \in BookingOutcomes :
       /\ hooks[k].pc = "lookup"
       /\ hooks' = [hooks EXCEPT ![k] =
                      IF bk.email = Null
                      THEN [@ EXCEPT !.pc = "done", !.status = 200, !.lookups = 1]
                      ELSE [@ EXCEPT !.pc = "send", !.lookups = 1]]
  /\ UNCHANGED <<serverVars, paymentIntents, treqs, pageViews, squery, hookMail,
                 depositAnswer, host, formAnswers, decision>>

\* Promise.all of the customer's and the admin's message: a rejection ends
\* "payment_intent.canceled" in the outer catch (500) and "charge.refunded"
\* in the inner one, after which res.send() answers
WebhookSend ==
  /\ \E k \in DOMAIN hooks, okCustomer \in BOOLEAN, okAdmin \in BOOLEAN :
       /\ hooks[k].pc = "send"
       /\ hooks' = [hooks EXCEPT ![k] =
                      [@ EXCEPT !.pc = "done",
                                !.mails = IF okCustomer THEN 1 ELSE 0,
                                !.status =
                                  IF hooks[k].type = "payment_intent.canceled"
                                     /\ ~(okCustomer /\ okAdmin)
                                  THEN 500 ELSE 200]]
       /\ hookMail' =
            IF okCustomer /\ hooks[k].type = "payment_intent.canceled"
            THEN [hookMail EXCEPT ![hooks[k].hold] = IF @ < 2 THEN @ + 1 ELSE @]
            ELSE hookMail
  /\ UNCHANGED <<serverVars, paymentIntents, treqs, pageViews, squery,
                 depositAnswer, host, formAnswers, decision>>

\* the Payment Service has the answer: the request is over
WebhookClose ==
  /\ \E k \in DOMAIN hooks :
       /\ hooks[k].pc = "done"
       /\ hooks' = [hooks EXCEPT ![k] = FreeHook]
  /\ UNCHANGED <<serverVars, paymentIntents, treqs, pageViews, squery, hookMail,
                 depositAnswer, host, formAnswers, decision>>


\* ------------------------------------------------------------------------
\* The whole server beside holds that wait for capture
\* ------------------------------------------------------------------------
\* a hold the deposit page made and the customer's card confirmed
Held(b) == [NewIntent(b, "page") EXCEPT !.status = "requires_capture"]

\* the holds the Payment Service keeps when the server starts
HeldAtStart == {<<Held(101)>>}

InitDesk ==
  /\ now = StartTime
  /\ processedBookings = {}
  /\ callbackFile = NoFile
  /\ formStatus = [b \in BookingIDs |-> NoForm]
  /\ mailbox = [b \in BookingIDs |-> NoMail]
  /\ pcall = IdleCall
  /\ paymentIntents \in HeldAtStart
  /\ pageViews = [b \in BookingIDs |->
                    Cardinality({h \in DOMAIN paymentIntents :
                                   paymentIntents[h].bookingID = b})]
  /\ squery = NoStatusQuery
  /\ hooks = [k \in 1..MaxHooks |-> FreeHook]
  /\ hookMail = [h \in 1..MaxHolds |-> 0]
  /\ depositAnswer = Unobserved
  /\ host = SoundHost
  /\ formAnswers = NoFormAnswers
  /\ decision = NoDecision
  /\ treqs = [i \in 1..MaxTerminal |-> FreeTreq]
  /\ sentFile = NoFile
  /\ sentDepositBookings = loadSet(sentFile)
  /\ reqs = [i \in 1..MaxReq |-> FreeReq]
  /\ callbacks = [c \in 1..MaxCallbacks |-> FreeCallback]
  /\ sched = [s \in 1..MaxRuns |-> FreeRun]

\* the requests and scheduler runs the server is busy with
InFlight ==
  Cardinality({i \in DOMAIN treqs : treqs[i].pc # "free"})
    + Cardinality({k \in DOMAIN hooks : hooks[k].pc # "free"})
    + Cardinality({i \in DOMAIN reqs : reqs[i].pc # "free" /\ reqs[i].via = "direct"})
    + Cardinality({c \in DOMAIN callbacks : callbacks[c].pc # "free"})
    + Cardinality({r \in DOMAIN sched : sched[r].pc \notin {"free", "done"}})
    + (IF squery.kind # "none" THEN 1 ELSE 0)

\* a request arrives, or the cron job starts a run, while fewer than
\* MaxInFlight are being handled
Arrival ==
  /\ InFlight < MaxInFlight
  /\ \/ PayPage
     \/ TerminalCapture
     \/ TerminalCancel
     \/ DepositStatus
     \/ ListAll
     \/ ListBooking
     \/ WebhookReceive
     \/ SendLinkPlain
     \/ CallbackReceive
     \/ SchedulerStart

NextDesk ==
  \/ Arrival
  \/ CardConfirmed
  \/ CancelNotify
  \/ TerminalClose
  \/ StatusClose
  \/ WebhookRetrieve
  \/ WebhookLookup
  \/ WebhookSend
  \/ WebhookClose
  \/ SendLinkLookup
  \/ SendLinkSend
  \/ Close
  \/ CallbackLookup
  \/ CallbackDecide
  \/ CallbackQuestionnaire
  \/ CallbackSendLink
  \/ CallbackFinish
  \/ CallbackClose
  \/ SchedulerList
  \/ SchedulerDetails
  \/ SchedulerSendLink
  \/ SchedulerAwait

SpecDesk == InitDesk /\ [][NextDesk]_vars


\* ------------------------------------------------------------------------
\* Properties of the handlers beside the holds
\* ------------------------------------------------------------------------
\* this step takes in a POST /terminal request of the given kind for hold h
TerminalRequestFor(h, kind) ==
  \E i \in DOMAIN treqs :
    /\ treqs[i].pc = "free" /\ treqs'[i].pc # "free"
    /\ treqs'[i].kind = kind /\ treqs'[i].hold = h

\* C21: a hold leaves requires_capture only in a step of POST
\* /terminal/cancel (to canceled) or POST /terminal/capture (to succeeded)
\* for that hold; a step of the scheduler, the booking callback, the
\* webhook, send-link, the status or a listing handler leaves every hold as
\* it is.
C21_OnlyTerminalRequestsMoveAHold ==
  /\ [][\A h \in DOMAIN paymentIntents :
          paymentIntents[h].status = "requires_capture"
            => /\ h \in DOMAIN paymentIntents'
               /\ \/ paymentIntents'[h].status = "requires_capture"
                  \/ /\ paymentIntents'[h].status = "canceled"
                     /\ TerminalRequestFor(h, "cancel")
                  \/ /\ paymentIntents'[h].status = "succeeded"
                     /\ TerminalRequestFor(h, "capture")]_vars
  /\ [][(\/ sched' # sched \/ callbacks' # callbacks \/ hooks' # hooks
         \/ reqs' # reqs \/ squery' # squery)
          => paymentIntents' = paymentIntents]_vars

C21_Witness ==
  /\ Len(paymentIntents) = 2
  /\ paymentIntents[1].status = "canceled"
  /\ hookMail[1] = 1
  /\ paymentIntents[2].status = "requires_capture"
  /\ sched[1].pc = "done"
  /\ processedBookings # {}
  /\ mailbox[101].ok # Null
  /\ squery.kind = "status" /\ squery.hold = 2


\* ------------------------------------------------------------------------
\* GET /deposit/status beside the life of the holds
\* ------------------------------------------------------------------------
NextStatus ==
  \/ PayPage
  \/ CardConfirmed
  \/ TerminalCapture
  \/ TerminalCancel
  \/ CancelNotify
  \/ TerminalClose
  \/ DepositStatus
  \/ StatusClose

SpecStatus == InitHold /\ [][NextStatus]_vars


\* the holds of the page GET /deposit/status reads that are tagged with
\* booking b and whose status is one of the given ones, as positions of the page
ListedWith(b, statuses) ==
  {k \in DOMAIN stripeList(STATUS_LIMIT) :
     /\ paymentIntents[stripeList(STATUS_LIMIT)[k]].bookingID = b
     /\ paymentIntents[stripeList(STATUS_LIMIT)[k]].status \in statuses}

\* the step answers a GET /deposit/status request with 200 and the first
\* hold of the page tagged with the booking in one of the given statuses,
\* and with success = false only when the page has no such hold
StatusAnswerFor(statuses) ==
  (squery.kind = "none" /\ squery'.kind = "status" /\ squery'.code = 200)
    => LET page == stripeList(STATUS_LIMIT)
           fit == ListedWith(squery'.bookingID, statuses)
       IN IF fit = {}
          THEN ~squery'.success
          ELSE /\ squery'.success
               /\ \E k \in fit : /\ page[k] = squery'.hold
                                 /\ \A j \in fit : k <= j
               /\ squery'.status = paymentIntents[squery'.hold].status

\* C22 as stated, terminal states being captured and canceled: the status
\* query reports the first listed hold of the booking that is succeeded,
\* canceled or requires_capture.
C22_StatusReportsFirstTerminalOrActive ==
  [][StatusAnswerFor({"succeeded", "canceled", "requires_capture"})]_vars

\* C22: GET /deposit/status/:bookingID reports the first hold of the listed
\* page tagged with the booking whose status is succeeded or
\* requires_capture, with success = true and that status; it reports
\* success = false exactly when the page has no such hold, a canceled hold
\* of the booking being passed over.
C22_StatusReportsFirstCapturedOrHeld ==
  [][StatusAnswerFor({"succeeded", "requires_capture"})]_vars

C22_Witness ==
  /\ squery.kind = "status" /\ squery.success
  /\ squery.hold = 1 /\ squery.status = "requires_capture"
  /\ Len(paymentIntents) = 2
  /\ paymentIntents[2].bookingID = squery.bookingID
  /\ paymentIntents[2].status = "canceled"
  /\ paymentIntents[1].status = "requires_capture"


\* ------------------------------------------------------------------------
\* Scheduler runs over the sent set
\* ------------------------------------------------------------------------
\* the sets loadSet may return, and one whose record has just expired
SchedulerSentSets ==
  LoadableSentSets \cup {{SentEntry(101, StartTime - THREE_DAYS_MS)}}

InitScheduler ==
  /\ InitServer
  /\ treqs = <<>>
  /\ sentFile \in {JsonArray(S) : S \in SchedulerSentSets}
  /\ sentDepositBookings = loadSet(sentFile)
  /\ reqs = [i \in 1..MaxReq |-> FreeReq]
  /\ callbacks = <<>>
  /\ sched = [s \in 1..MaxRuns |-> FreeRun]

NextScheduler ==
  \/ SchedulerStart
  \/ SchedulerList
  \/ SchedulerDetails
  \/ SchedulerSendLink
  \/ SchedulerAwait
  \/ SendLinkLookup
  \/ SendLinkSend

SpecScheduler == InitScheduler /\ [][NextScheduler]_vars

\* slot i takes in a send-link request of a scheduler run
ReceivedFromRun(i) ==
  /\ reqs[i].pc = "free" /\ reqs'[i].pc # "free"
  /\ reqs'[i].via = "scheduler"

\* C23: a scheduler run asks for the deposit link only for the reservation
\* at the head of its list and only when get_reservation_data gave it
\* status 7 or "7"; a request of the run that arrives while the booking has
\* a sent-record younger than 3 days is answered at once and sends nothing,
\* and every deposit-request email of a run comes from a request that found
\* no such record on arrival.
C23_RunAsksOnlyForConfirmedNotYetSent ==
  /\ [][\A i \in DOMAIN reqs :
          ReceivedFromRun(i)
            => /\ \E s \in DOMAIN sched :
                    /\ sched[s].pc = "sendlink" /\ sched'[s].child = i
                    /\ Head(sched[s].items) = reqs'[i].bookingID
                    /\ sched[s].status \in {StatusNum7, StatusStr7}
               /\ reqs'[i].force = "undefined"
               /\ HasActiveRecord(reqs'[i].bookingID)
                    => /\ reqs'[i].pc = "done"
                       /\ reqs'[i].res.alreadySent
                       /\ reqs'[i].sendCalls = 0
                       /\ UNCHANGED <<mailbox, sentDepositBookings, sentFile>>]_vars
  /\ [][\A i \in DOMAIN reqs :
          (reqs[i].via = "scheduler" /\ reqs[i].pc = "done" /\ reqs[i].res.alreadySent)
            => (reqs'[i] = reqs[i] \/ reqs'[i] = FreeReq)]_vars
  /\ [][mailbox' # mailbox
          => \E i \in DOMAIN reqs :
               /\ reqs[i].pc = "sending" /\ reqs'[i].pc = "done"
               /\ ~reqs'[i].res.alreadySent]_vars

\* a run has skipped a reservation with a record younger than 3 days and
\* the customer of it got no message
C23_Witness ==
  \E i \in DOMAIN reqs :
    /\ reqs[i].via = "scheduler" /\ reqs[i].pc = "done"
    /\ reqs[i].res.alreadySent
    /\ HasActiveRecord(reqs[i].bookingID)
    /\ mailbox[reqs[i].bookingID] = NoMail
    /\ \E s \in DOMAIN sched : sched[s].pc = "await" /\ sched[s].child = i
                               /\ sched[s].status = StatusStr7


\* ------------------------------------------------------------------------
\* Scheduler runs while the services answer again and again
\* ------------------------------------------------------------------------
\* list_reservations answers with every reservation of the day
ListsAll ==
  /\ SchedulerList
  /\ \E s \in DOMAIN sched :
       sched[s].pc = "list" /\ sched'[s].items = <<102, 101>>

\* get_reservation_data answers with the confirmed status for b
DetailsConfirmed(b) ==
  /\ SchedulerDetails
  /\ \E s \in DOMAIN sched :
       /\ sched[s].pc = "details" /\ Head(sched[s].items) = b
       /\ sched'[s].pc = "sendlink"

\* the fetch of /deposit/send-link for b reaches the server
AsksLink(b) ==
  /\ SchedulerSendLink
  /\ \E s \in DOMAIN sched :
       /\ sched[s].pc = "sendlink" /\ Head(sched[s].items) = b
       /\ sched'[s].pc = "await"

\* fetchPlanyoBooking finds the email of b
LookupFinds(b) ==
  /\ SendLinkLookup
  /\ \E i \in DOMAIN reqs :
       /\ reqs[i].pc = "lookup" /\ reqs[i].bookingID = b
       /\ reqs'[i].pc = "sending"

\* the Notification Sender takes both messages for b
SendsBoth(b) ==
  /\ SendLinkSend
  /\ \E i \in DOMAIN reqs :
       /\ reqs[i].pc = "sending" /\ reqs[i].bookingID = b
       /\ reqs'[i].res.success

\* the cron job goes on starting runs, a run goes on when its request is
\* answered, and each service, asked again and again, answers in the end
SchedulerFairness ==
  /\ WF_vars(SchedulerStart)
  /\ WF_vars(SchedulerAwait)
  /\ SF_vars(ListsAll)
  /\ \A b \in BookingIDs :
       /\ SF_vars(DetailsConfirmed(b))
       /\ SF_vars(AsksLink(b))
       /\ SF_vars(LookupFinds(b))
       /\ SF_vars(SendsBoth(b))

SpecSchedulerLive == InitScheduler /\ [][NextScheduler]_vars /\ SchedulerFairness

\* a run ends in its catch block in this step
RunFails(s) == sched[s].pc \notin {"free", "done"} /\ sched'[s].pc = "done"
                 /\ sched'[s].failed

SendFailed(i) ==
  /\ reqs[i].pc = "sending" /\ reqs'[i].pc = "done"
  /\ reqs'[i].delivered # {"customer", "admin"}

\* C25: when the Notification Sender rejects a message of send-deposit-link
\* or of the deposit-confirmation handler, the handler has made its two
\* sendgrid.send calls and no further one, and answers the request with
\* status 500.
C25_SendFailureIs500WithoutRetry ==
  [][\A i \in DOMAIN reqs :
       SendFailed(i) => /\ reqs'[i].sendCalls = 2
                        /\ reqs'[i].res.status = 500]_vars


\* no GET /deposit/pay or POST /deposit/create-intent request answered yet
NoDepositAnswer == [handler |-> "none", code |-> 0, body |-> "none", caught |-> FALSE]

InitFailures ==
  /\ now = StartTime
  /\ processedBookings = {}
  /\ callbackFile = NoFile
  /\ formStatus = [b \in BookingIDs |-> NoForm]
  /\ mailbox = [b \in BookingIDs |-> NoMail]
  /\ pcall = IdleCall
  /\ paymentIntents = <<>>
  /\ pageViews = [b \in BookingIDs |-> 0]
  /\ squery = NoStatusQuery
  /\ hooks = [k \in 1..MaxHooks |-> FreeHook]
  /\ hookMail = [h \in 1..MaxHolds |-> 0]
  /\ depositAnswer = NoDepositAnswer
  /\ host = SoundHost
  /\ formAnswers = NoFormAnswers
  /\ decision = NoDecision
  /\ treqs = [i \in 1..MaxTerminal |-> FreeTreq]
  /\ sentFile = NoFile
  /\ sentDepositBookings = loadSet(sentFile)
  /\ reqs = [i \in 1..MaxReq |-> FreeReq]
  /\ callbacks = <<>>
  /\ sched = <<>>

NextFailures ==
  \/ PayPage
  \/ CreateIntent
  \/ CardConfirmed
  \/ TerminalCapture
  \/ TerminalClose
  \/ SendLinkPlain
  \/ SendLinkLookup
  \/ SendLinkSend
  \/ ConfirmationReceive
  \/ ConfirmationLookup
  \/ ConfirmationSend
  \/ Close

SpecFailures == InitFailures /\ [][NextFailures]_vars

\* C26: a request whose awaited call to the Payment Service or to the
\* Notification Sender failed has been answered by the catch block of its
\* handler with status 500 and the message of the exception: GET
\* /deposit/pay and POST /deposit/create-intent after a rejected create,
\* send-link and the confirmation handler after a rejected send, POST
\* /terminal/capture after a rejected capture.
C26_EveryFailureIsCaughtAnd500 ==
  /\ (depositAnswer.handler \in {"pay", "create-intent"}
      /\ depositAnswer.body \notin {"page", "clientSecret"})
       => /\ depositAnswer.caught
          /\ depositAnswer.code = 500
          /\ depositAnswer.body = "err.message"
  /\ \A i \in DOMAIN reqs :
       (reqs[i].pc = "done" /\ reqs[i].sendCalls = 2
        /\ reqs[i].delivered # {"customer", "admin"})
         => /\ reqs[i].res.status = 500
            /\ reqs[i].res.error = "err.message"
  /\ \A i \in DOMAIN treqs :
       (treqs[i].pc = "done" /\ treqs[i].status # 200) => treqs[i].status = 500


\* ------------------------------------------------------------------------
\* The two sets, their files and restarts of the process
\* ------------------------------------------------------------------------
\* sentDeposits.json as a start may find it: absent, unreadable, an object
\* keyed by booking id, or an array some revision wrote
SentFiles ==
  {NoFile, Unparsable, JsonObject({String(101)})}
    \cup {JsonArray(S) : S \in LoadableSentSets}

\* processedCallbacks.json as a start may find it
CallbackFiles == {NoFile}

\* the process ends and is started again: the requests in progress are
\* gone, and the two sets are what loadSet reads of the files
Restart ==
  /\ host.boots < MaxBoots
  /\ host' = [host EXCEPT !.boots = @ + 1]
  /\ processedBookings' = loadSet(callbackFile)
  /\ sentDepositBookings' = loadSet(sentFile)
  /\ reqs' = [i \in DOMAIN reqs |-> FreeReq]
  /\ callbacks' = [c \in DOMAIN callbacks |-> FreeCallback]
  /\ pcall' = IdleCall
  /\ UNCHANGED <<now, sentFile, callbackFile, sched, formStatus, mailbox,
                 paymentIntents, treqs, pageViews, squery, hooks, hookMail,
                 depositAnswer, formAnswers, decision>>

InitStore ==
  /\ now = StartTime
  /\ callbackFile \in CallbackFiles
  /\ processedBookings = loadSet(callbackFile)
  /\ sentFile \in SentFiles
  /\ sentDepositBookings = loadSet(sentFile)
  /\ formStatus = [b \in BookingIDs |-> NoForm]
  /\ mailbox = [b \in BookingIDs |-> NoMail]
  /\ pcall = IdleCall
  /\ paymentIntents = <<>>
  /\ pageViews = [b \in BookingIDs |-> 0]
  /\ squery = NoStatusQuery
  /\ hooks = [k \in 1..MaxHooks |-> FreeHook]
  /\ hookMail = [h \in 1..MaxHolds |-> 0]
  /\ depositAnswer = Unobserved
  /\ host \in {[diskFails |-> f, boots |-> 0] : f \in BOOLEAN}
  /\ formAnswers = NoFormAnswers
  /\ decision = NoDecision
  /\ treqs = <<>>
  /\ reqs = [i \in 1..MaxReq |-> FreeReq]
  /\ callbacks = [c \in 1..MaxCallbacks |-> FreeCallback]
  /\ sched = <<>>

NextStore ==
  \/ SendLinkLookup
  \/ SendLinkSend
  \/ CallbackReceive
  \/ CallbackLookup
  \/ CallbackDecide
  \/ CallbackQuestionnaire
  \/ CallbackSendLink
  \/ CallbackFinish
  \/ CallbackClose
  \/ Sweep
  \/ Restart

SpecStore == InitStore /\ [][NextStore]_vars

\* the process is started again in this step
Restarts == host'.boots # host.boots

\* alreadySentRecently and the processed check answer after the step as
\* they did before it
SameAnswers ==
  \A b \in BookingIDs :
    /\ alreadySentRecently(b)' = alreadySentRecently(b)
    /\ alreadyProcessed(b)' = alreadyProcessed(b)

\* C27 as stated: every step of a handler or of the sweep that changes one
\* of the two sets leaves its file holding the JSON array of exactly the
\* set's elements, and a restart gives both checks the answers they gave
\* before it.
C27_FileIsExactlyTheSet ==
  /\ [][(~Restarts /\ sentDepositBookings' # sentDepositBookings)
          => sentFile' = JsonArray(sentDepositBookings')]_vars
  /\ [][(~Restarts /\ processedBookings' # processedBookings)
          => callbackFile' = JsonArray(processedBookings')]_vars
  /\ [][Restarts => SameAnswers]_vars

\* the process has run since the set last changed with its file in step
Saved(file, set) == file = JsonArray(set)

\* C27: a step that changes one of the two sets calls saveSet for it: the
\* file then holds the JSON array of exactly the set's elements when
\* writeFileSync succeeds, and its former contents or an unparsable rest
\* when it throws, which saveSet only logs. loadSet at start-up restores
\* the elements of the array in the file, so a restart gives both checks
\* the answers they gave before it whenever the files are those the last
\* changes wrote; after a failed write it brings back the older set, or an
\* empty one.
C27_FileFollowsTheSetWhenWritten ==
  /\ [][(~Restarts /\ sentDepositBookings' # sentDepositBookings)
          => IF host.diskFails
             THEN sentFile' \in {JsonArray(sentDepositBookings'), sentFile, Unparsable}
             ELSE sentFile' = JsonArray(sentDepositBookings')]_vars
  /\ [][(~Restarts /\ processedBookings' # processedBookings)
          => IF host.diskFails
             THEN callbackFile' \in {JsonArray(processedBookings'), callbackFile,
                                     Unparsable}
             ELSE callbackFile' = JsonArray(processedBookings')]_vars
  /\ [][Restarts
          => /\ sentDepositBookings' = loadSet(sentFile)
             /\ processedBookings' = loadSet(callbackFile)
             /\ (Saved(sentFile, sentDepositBookings)
                 /\ Saved(callbackFile, processedBookings)) => SameAnswers]_vars
  /\ [](~host.diskFails
          => /\ loadSet(sentFile) = sentDepositBookings
             /\ loadSet(callbackFile) = processedBookings)

\* after a restart both sets hold what the handlers had added before it
C27_Witness ==
  /\ host.boots = 1 /\ ~host.diskFails
  /\ 101 \in processedBookings
  /\ HasActiveRecord(101)
  /\ mailbox[101].ok # Null
  /\ sentFile = JsonArray(sentDepositBookings)
  /\ callbackFile = JsonArray(processedBookings)
  /\ Cardinality(sentDepositBookings) = 3


\* ------------------------------------------------------------------------
\* POST /webhook beside the terminal
\* ------------------------------------------------------------------------
NextWebhook ==
  \/ WebhookReceive
  \/ WebhookRetrieve
  \/ WebhookLookup
  \/ WebhookSend
  \/ WebhookClose
  \/ TerminalCapture
  \/ TerminalCancel
  \/ CancelNotify
  \/ TerminalClose

SpecWebhook == InitDesk /\ [][NextWebhook]_vars

\* a POST /webhook request arrives in this step with a signature that does
\* not verify
UnsignedArrives(k) ==
  /\ hooks[k].pc = "free"
  /\ hooks'[k].pc # "free"
  /\ ~hooks'[k].signed

\* C28: a POST /webhook request whose signature does not verify is answered
\* 400 in the step it arrives, and neither that step nor any later one of
\* the request looks a booking up, sends a message or changes the stored
\* state: the sets, their files, the form records, the mailboxes and the
\* holds stay as they were.
C28_UnverifiedWebhookIs400WithoutEffect ==
  /\ [][\A k \in DOMAIN hooks :
          UnsignedArrives(k)
            => /\ hooks'[k].pc = "done"
               /\ hooks'[k].status = 400
               /\ UNCHANGED <<serverVars, paymentIntents, treqs, pageViews,
                              squery, hookMail, host, formAnswers, decision>>]_vars
  /\ [](\A k \in DOMAIN hooks :
          ~hooks[k].signed
            => /\ hooks[k].pc = "done"
               /\ hooks[k].status = 400
               /\ hooks[k].lookups = 0
               /\ hooks[k].mails = 0)
  /\ [][\A k \in DOMAIN hooks :
          (~hooks[k].signed /\ hooks'[k] # hooks[k])
            => /\ hooks'[k] = FreeHook
               /\ UNCHANGED <<serverVars, paymentIntents, treqs, pageViews,
                              squery, hookMail, host, formAnswers, decision>>]_vars

\* a request that names a canceled hold in a "payment_intent.canceled" event
\* without a valid signature has its 400, and no message about the hold went
\* out
C28_Witness ==
  \E k \in DOMAIN hooks :
    /\ ~hooks[k].signed
    /\ hooks[k].type = "payment_intent.canceled"
    /\ hooks[k].status = 400
    /\ hooks[k].hold \in DOMAIN paymentIntents
    /\ paymentIntents[hooks[k].hold].status = "canceled"
    /\ hookMail[hooks[k].hold] = 0


\* ------------------------------------------------------------------------
\* The questionnaire and licence handlers
\* ------------------------------------------------------------------------
\* the values dvlaStatus is given
DvlaStatuses == {"pending", "checked", "valid", "invalid"}

\* licence numbers and check codes a request body may carry; Null: none
LicenceNumbers == {Null, 901, 902}

DvlaCodes == {Null, 801}

\* what the questionnaire and licence handlers leave alone
formFrame ==
  <<now, sentDepositBookings, sentFile, processedBookings, callbackFile, reqs,
    callbacks, sched, mailbox, pcall, paymentIntents, treqs, pageViews, hooks,
    hookMail, depositAnswer, host, decision>>

\* type.toLowerCase() === "short" ? "short" : "long"
submitFormType(type) == IF type = "short" THEN "short" ELSE "long"

\* marking that sets the flag of the form type and clears the other
markDoneExclusive(status, formType) ==
  [status EXCEPT !.shortDone = formType = "short",
                 !.longDone = formType = "long"]

\* shortDone / longDone set for the form type
markDone(status, formType) ==
  [status EXCEPT !.shortDone = @ \/ formType = "short",
                 !.longDone = @ \/ formType = "long"]

\* POST /forms/submit with a bookingID: the record is created when missing,
\* then marked
formsSubmit(saved, formType) ==
  markDone(IF saved.present THEN saved
           ELSE [NoForm EXCEPT !.present = TRUE, !.requiredForm = formType],
           formType)

\* POST /forms/submit: 400 without email or type; without a bookingID the
\* record is looked for by its email field, which no handler writes
FormsSubmit ==
  /\ \E b \in ClientBookingIDs, type \in {"short", "long", "other", "none"},
        named \in BOOLEAN :
       IF type # "none" /\ named
       THEN /\ formStatus' = [formStatus EXCEPT ![b] =
                                formsSubmit(@, submitFormType(type))]
            /\ formAnswers' = [formAnswers EXCEPT ![b] =
                                 @ \cup {submitFormType(type)}]
       ELSE UNCHANGED <<formStatus, formAnswers>>
  /\ UNCHANGED <<formFrame, squery>>

\* a handler that stores new licence data and leaves the verdict as it is
formsSubmittedKeepsVerdict(saved, formType, licenceNumber, dvlaCode) ==
  [present |-> TRUE,
   requiredForm |-> IF saved.present THEN saved.requiredForm ELSE formType,
   shortDone |-> saved.shortDone \/ formType = "short",
   longDone |-> saved.longDone \/ formType = "long",
   licenceNumber |-> IF licenceNumber # Null THEN licenceNumber
                     ELSE saved.licenceNumber,
   dvlaCode |-> IF dvlaCode # Null THEN dvlaCode ELSE saved.dvlaCode,
   dvlaStatus |-> IF saved.present THEN saved.dvlaStatus ELSE "pending"]

\* a handler that puts the default record in place of the one it read
formsSubmittedFresh(saved, formType, licenceNumber, dvlaCode) ==
  [present |-> TRUE, requiredForm |-> formType,
   shortDone |-> formType = "short", longDone |-> formType = "long",
   licenceNumber |-> licenceNumber, dvlaCode |-> dvlaCode,
   dvlaStatus |-> "pending"]

\* POST /forms/submitted behind its checks: the record or its default,
\* marked; a new licence number or code resets dvlaStatus to "pending"
formsSubmitted(saved, formType, licenceNumber, dvlaCode) ==
  LET status == markDone(IF saved.present THEN saved
                         ELSE [NoForm EXCEPT !.present = TRUE,
                                             !.requiredForm = formType,
                                             !.dvlaStatus = "pending"],
                         formType)
      licenceChanged == licenceNumber # Null /\ licenceNumber # status.licenceNumber
      codeChanged == dvlaCode # Null /\ dvlaCode # status.dvlaCode
  IN [status EXCEPT
        !.licenceNumber = IF licenceChanged THEN licenceNumber ELSE @,
        !.dvlaCode = IF codeChanged THEN dvlaCode ELSE @,
        !.dvlaStatus = IF licenceChanged \/ codeChanged THEN "pending" ELSE @]

\* POST /forms/submitted: 400 unless formType is "short" or "long"; the
\* handler has no await
FormsSubmitted ==
  /\ \E b \in ClientBookingIDs, formType \in {"short", "long", "other"},
        licenceNumber \in LicenceNumbers, dvlaCode \in DvlaCodes :
       IF formType \in {"short", "long"}
       THEN /\ formStatus' = [formStatus EXCEPT ![b] =
                                formsSubmitted(@, formType, licenceNumber, dvlaCode)]
            /\ formAnswers' = [formAnswers EXCEPT ![b] = @ \cup {formType}]
       ELSE UNCHANGED <<formStatus, formAnswers>>
  /\ UNCHANGED <<formFrame, squery>>

\* POST /dvla/check: 400 without a record, a licence number and a code
DvlaCheck ==
  /\ \E b \in ClientBookingIDs :
       formStatus' =
         IF ~formStatus[b].present \/ formStatus[b].licenceNumber = Null
            \/ formStatus[b].dvlaCode = Null
         THEN formStatus
         ELSE [formStatus EXCEPT ![b] = [@ EXCEPT !.dvlaStatus = "checked"]]
  /\ UNCHANGED <<formFrame, squery, formAnswers>>

\* POST /dvla/manual-verify: existing = formStatus[bookingID] || {}
DvlaManualVerify ==
  /\ \E b \in ClientBookingIDs :
       formStatus' = [formStatus EXCEPT ![b] =
                        [@ EXCEPT !.present = TRUE, !.dvlaStatus = "valid"]]
  /\ UNCHANGED <<formFrame, squery, formAnswers>>

\* POST /forms/dvla/save: the record or { requiredForm: "long", ... }; a new
\* licence number or code resets dvlaStatus
formsDvlaSave(saved, licenceNumber, dvlaCode) ==
  LET status == IF saved.present THEN saved
                ELSE [NoForm EXCEPT !.present = TRUE, !.requiredForm = "long"]
      licenceChanged == licenceNumber # Null /\ licenceNumber # status.licenceNumber
      codeChanged == dvlaCode # Null /\ dvlaCode # status.dvlaCode
  IN [status EXCEPT
        !.licenceNumber = IF licenceChanged THEN licenceNumber ELSE @,
        !.dvlaCode = IF codeChanged THEN dvlaCode ELSE @,
        !.dvlaStatus = IF licenceChanged \/ codeChanged THEN "pending" ELSE @]

FormsDvlaSave ==
  /\ \E b \in ClientBookingIDs, licenceNumber \in LicenceNumbers,
        dvlaCode \in DvlaCodes :
       formStatus' = [formStatus EXCEPT ![b] =
                        formsDvlaSave(@, licenceNumber, dvlaCode)]
  /\ UNCHANGED <<formFrame, squery, formAnswers>>

\* POST /forms/dvla/checked, /override-valid and /override-invalid: 404
\* without a record, else dvlaStatus is set
formsDvlaMark(saved, dvlaStatus) ==
  IF ~saved.present THEN saved ELSE [saved EXCEPT !.dvlaStatus = dvlaStatus]

FormsDvlaChecked ==
  /\ \E b \in ClientBookingIDs :
       formStatus' = [formStatus EXCEPT ![b] = formsDvlaMark(@, "checked")]
  /\ UNCHANGED <<formFrame, squery, formAnswers>>

FormsDvlaOverrideValid ==
  /\ \E b \in ClientBookingIDs :
       formStatus' = [formStatus EXCEPT ![b] = formsDvlaMark(@, "valid")]
  /\ UNCHANGED <<formFrame, squery, formAnswers>>

FormsDvlaOverrideInvalid ==
  /\ \E b \in ClientBookingIDs :
       formStatus' = [formStatus EXCEPT ![b] = formsDvlaMark(@, "invalid")]
  /\ UNCHANGED <<formFrame, squery, formAnswers>>

\* a report of the stored field as it is
formsStatusDvlaStored(saved) == saved.dvlaStatus

\* GET /forms/status/:bookingID: dvlaStatus: saved.dvlaStatus ?? "pending"
\* with saved = formStatus[bookingID] || {}
formsStatusDvla(saved) ==
  IF saved.dvlaStatus = "absent" THEN "pending" ELSE saved.dvlaStatus

FormsStatus ==
  /\ squery.kind = "none"
  /\ \E b \in BookingIDs :
       squery' = [NoStatusQuery EXCEPT
                    !.kind = "forms", !.bookingID = b, !.code = 200,
                    !.success = formStatus[b].shortDone,
                    !.status = formsStatusDvla(formStatus[b])]
  /\ UNCHANGED <<formFrame, formStatus, formAnswers>>

\* the licence handlers beside the submissions and the status request
NextDvla ==
  \/ FormsSubmit
  \/ FormsSubmitted
  \/ DvlaCheck
  \/ DvlaManualVerify
  \/ FormsDvlaSave
  \/ FormsDvlaChecked
  \/ FormsDvlaOverrideValid
  \/ FormsDvlaOverrideInvalid
  \/ FormsStatus
  \/ StatusClose

SpecDvla == InitCallback /\ [][NextDvla]_vars

\* the submissions beside the booking callback
NextForms ==
  \/ FormsSubmit
  \/ FormsSubmitted
  \/ CallbackReceive
  \/ CallbackLookup
  \/ CallbackDecide
  \/ CallbackQuestionnaire
  \/ CallbackSendLink
  \/ SendLinkLookup
  \/ SendLinkSend
  \/ CallbackFinish
  \/ CallbackClose

SpecForms == InitCallback /\ [][NextForms]_vars

\* C29: the dvlaStatus a record stores is one of pending, checked, valid and
\* invalid wherever it stores one, the one GET /forms/status/:bookingID
\* reports is always one of the four, and a booking without a record, or
\* with a record that stores none, is reported as pending.
C29_DvlaStatusIsOneOfFour ==
  /\ [](\A b \in BookingIDs :
          /\ formStatus[b].dvlaStatus \in DvlaStatuses \cup {"absent"}
          /\ ~formStatus[b].present => formStatus[b].dvlaStatus = "absent")
  /\ [](squery.kind = "forms" => squery.status \in DvlaStatuses)
  /\ [][(squery.kind = "none" /\ squery'.kind = "forms")
          => squery'.status =
               IF formStatus[squery'.bookingID].dvlaStatus \in DvlaStatuses
               THEN formStatus[squery'.bookingID].dvlaStatus
               ELSE "pending"]_vars

\* POST /forms/submit has left a record without a dvlaStatus, and the
\* status request for the booking was answered pending
C29_Witness ==
  /\ squery.kind = "forms"
  /\ formStatus[squery.bookingID].present
  /\ formStatus[squery.bookingID].longDone
  /\ formStatus[squery.bookingID].dvlaStatus = "absent"
  /\ squery.status = "pending"

\* C30: once the server has acknowledged a short-form and a long-form
\* submission for a booking, the booking's record has shortDone = true and
\* longDone = true, whatever the order in which the submissions and the
\* steps of the booking's callback ran.
C30_BothSubmissionsStay ==
  \A b \in BookingIDs :
    /\ "short" \in formAnswers[b] => formStatus[b].shortDone
    /\ "long" \in formAnswers[b] => formStatus[b].longDone

\* the callback decided the form type between the two submissions
C30_Witness ==
  \E b \in BookingIDs :
    /\ formAnswers[b] = {"short", "long"}
    /\ formStatus[b].shortDone /\ formStatus[b].longDone
    /\ formStatus[b].requiredForm = "short"
    /\ formStatus[b].licenceNumber = 902
    /\ \E c \in DOMAIN callbacks :
         callbacks[c].bookingID = b /\ callbacks[c].pc = "questionnaire"


\* ------------------------------------------------------------------------
\* Notices of a cancellation
\* ------------------------------------------------------------------------
\* the 'Deposit Hold Canceled' messages the customer got about hold h, from
\* POST /terminal/cancel and from the "payment_intent.canceled" branch of
\* POST /webhook
CanceledNotices(h) == paymentIntents[h].notices + hookMail[h]

\* C31: canceling a hold through POST /terminal/cancel brings the customer at
\* most one 'Deposit Hold Canceled' message, the one of the cancel handler
\* and the one of the webhook handler counted together.
C31_OneCanceledNoticePerCancel ==
  \A h \in DOMAIN paymentIntents :
    paymentIntents[h].status = "canceled" => CanceledNotices(h) <= 1


\* ------------------------------------------------------------------------
\* Questionnaires per booking
\* ------------------------------------------------------------------------
\* C32: the booking callback sends each booking's customer the questionnaire
\* message at most once, over every sequence and interleaving of
\* reservation_confirmed callbacks for the booking, redeliveries after an
\* answer of 500 included.
C32_OneQuestionnairePerBooking ==
  \A b \in BookingIDs : mailbox[b].quest <= 1


\* ------------------------------------------------------------------------
\* What a processed booking has received
\* ------------------------------------------------------------------------
\* C33: a booking enters the processed set only when its deposit link was
\* dispatched or was suppressed as already sent: the step that marks it
\* follows a send-link answer of success, and every processed booking has a
\* deposit-request message in the customer's mailbox.
C33_ProcessedOnlyAfterDispatch ==
  /\ [][\A c \in DOMAIN callbacks :
          (callbacks[c].pc = "await" /\ callbacks'[c].pc = "done"
           /\ callbacks[c].bookingID \in processedBookings')
            => reqs[callbacks[c].child].res.success]_vars
  /\ [](\A b \in processedBookings : mailbox[b].cust # Null)


\* ------------------------------------------------------------------------
\* Errors of POST /terminal/cancel
\* ------------------------------------------------------------------------
\* request i of POST /terminal/cancel gets an error for its answer in this
\* step
CancelAnswersError(i) ==
  /\ treqs[i].pc # "done"
  /\ treqs'[i].pc = "done"
  /\ treqs'[i].kind = "cancel"
  /\ treqs'[i].status = 500

\* C34: an error answer of POST /terminal/cancel means that the request did
\* not cancel the hold: it is given in the step in which the Payment Service
\* rejected the cancel, never after the Payment Service accepted it.
C34_CancelErrorMeansNotCanceled ==
  [][\A i \in DOMAIN treqs :
       CancelAnswersError(i)
         => /\ treqs[i].pc = "free"
            /\ paymentIntents' = paymentIntents]_vars


\* ------------------------------------------------------------------------
\* Licence data and the verdict on it
\* ------------------------------------------------------------------------
\* the licence number or the check code on file for booking b changes in
\* this step
LicenceDataChanges(b) ==
  \/ formStatus'[b].licenceNumber # formStatus[b].licenceNumber
  \/ formStatus'[b].dvlaCode # formStatus[b].dvlaCode

\* C35: a step of POST /forms/submitted or POST /forms/dvla/save that stores
\* a licence number or a check code different from the one on file leaves
\* the booking's dvlaStatus pending, so no checked or valid verdict stays
\* with changed licence data.
C35_ChangedLicenceResetsVerdict ==
  [][\A b \in BookingIDs :
       LicenceDataChanges(b) => formStatus'[b].dvlaStatus = "pending"]_vars

\* the status request still open was answered valid, and the record has
\* since been given licence number 902 and is pending again
C35_Witness ==
  /\ squery.kind = "forms"
  /\ squery.status = "valid"
  /\ formStatus[squery.bookingID].licenceNumber = 902
  /\ formStatus[squery.bookingID].dvlaCode = 801
  /\ formStatus[squery.bookingID].dvlaStatus = "pending"

\* C36: a booking's dvlaStatus is checked or valid only while its record
\* holds both a licence number and a check code.
C36_VerdictOnlyWithLicenceData ==
  \A b \in BookingIDs :
    formStatus[b].dvlaStatus \in {"checked", "valid"}
      => /\ formStatus[b].licenceNumber # Null
         /\ formStatus[b].dvlaCode # Null

\* ------------------------------------------------------------------------
\* The completion flags under every form, licence and callback request
\* ------------------------------------------------------------------------
InitFlags ==
  /\ InitServer
  /\ treqs = <<>>
  /\ sentFile = NoFile
  /\ sentDepositBookings = loadSet(sentFile)
  /\ reqs = <<>>
  /\ callbacks = [c \in 1..MaxCallbacks |-> FreeCallback]
  /\ sched = <<>>

\* the callback up to its call of /deposit/send-link, which finds the
\* server unreachable
NextFlags ==
  \/ FormsSubmit
  \/ FormsSubmitted
  \/ DvlaCheck
  \/ DvlaManualVerify
  \/ FormsDvlaSave
  \/ FormsDvlaChecked
  \/ FormsDvlaOverrideValid
  \/ FormsDvlaOverrideInvalid
  \/ CallbackReceive
  \/ CallbackLookup
  \/ CallbackDecide
  \/ CallbackQuestionnaire
  \/ CallbackSendLink
  \/ CallbackClose

SpecFlags == InitFlags /\ [][NextFlags]_vars

\* C37: once shortDone or longDone of a booking is true, no step of a form,
\* licence or callback request sets it back to false.
C37_CompletionFlagsMonotone ==
  [][\A b \in BookingIDs :
       /\ formStatus[b].shortDone => formStatus'[b].shortDone
       /\ formStatus[b].longDone => formStatus'[b].longDone]_vars

\* both flags are set, and the record has since been through a licence
\* verdict and a callback that decided the form type anew
C37_Witness ==
  \E b \in BookingIDs :
    /\ formStatus[b].shortDone /\ formStatus[b].longDone
    /\ formAnswers[b] = {"short", "long"}
    /\ formStatus[b].dvlaStatus = "invalid"
    /\ formStatus[b].requiredForm = "short"
    /\ \E c \in DOMAIN callbacks :
         callbacks[c].bookingID = b /\ callbacks[c].pc = "questionnaire"


\* ------------------------------------------------------------------------
\* decideFormTypeForBooking
\* ------------------------------------------------------------------------
\* days <= 90
SHORT_FORM_DAYS == 90

\* the start of the booking the decision is for, in days
CurrentDay == 400

\* the days a reservation may start on
Days ==
  {CurrentDay - 366, CurrentDay - 91, CurrentDay - 90, CurrentDay - 1,
   CurrentDay, CurrentDay + 1}

\* no start_time string
NoDateString == [form |-> "none", day |-> 0]

\* the "YYYY-MM-DD hh:mm:ss" strings of the Booking Service: well-formed
\* ones, one without a time part and one whose parts are not numbers
DateStrings ==
  {[form |-> "full", day |-> d] : d \in Days}
    \cup {[form |-> "dateonly", day |-> CurrentDay - 1],
          [form |-> "garbled", day |-> 0]}

\* parsePlanyoDate: null without a string or without a time part, otherwise
\* new Date(y, m - 1, d, hh, mm, ss), an Invalid Date for parts that are NaN
parsePlanyoDate(str) ==
  IF str.form \in {"none", "dateonly"} THEN Null
  ELSE IF str.form = "garbled" THEN NaN
  ELSE str.day

\* !st || isNaN(st.getTime())
Unusable(date) == date = Null \/ date = NaN

\* Math.abs(a.getTime() - b.getTime()) / (1000 * 60 * 60 * 24)
diffInDays(a, b) == IF a >= b THEN a - b ELSE b - a

\* the loop over results: the latest start before currentStart among the
\* reservations with another id and a usable start; Null for none
RECURSIVE lastPrevFrom(_, _, _, _)
lastPrevFrom(results, lastPrev, currentStart, currentReservationId) ==
  IF results = <<>> THEN lastPrev
  ELSE LET r == Head(results)
           st == parsePlanyoDate(r.start_time)
           taken == IF Unusable(st) THEN lastPrev
                    ELSE IF r.reservation_id = currentReservationId THEN lastPrev
                    ELSE IF st < currentStart /\ (lastPrev = Null \/ st > lastPrev)
                    THEN st
                    ELSE lastPrev
       IN lastPrevFrom(Tail(results), taken, currentStart, currentReservationId)

\* a decision that asks for the short form only inside the 90 days
decideFormTypeWithin(email, currentStartStr, currentReservationId, results) ==
  IF email = Null \/ currentStartStr.form = "none" THEN "long"
  ELSE LET currentStart == parsePlanyoDate(currentStartStr)
       IN IF Unusable(currentStart) THEN "long"
          ELSE IF results = <<>> THEN "long"
          ELSE LET lastPrev == lastPrevFrom(results, Null, currentStart,
                                            currentReservationId)
               IN IF lastPrev = Null THEN "long"
                  ELSE IF diffInDays(currentStart, lastPrev) < SHORT_FORM_DAYS
                  THEN "short" ELSE "long"

\* decideFormTypeForBooking over the results of its list_reservations call
decideFormTypeForBooking(email, currentStartStr, currentReservationId, results) ==
  IF email = Null \/ currentStartStr.form = "none" THEN "long"
  ELSE LET currentStart == parsePlanyoDate(currentStartStr)
       IN IF Unusable(currentStart) THEN "long"
          ELSE IF results = <<>> THEN "long"
          ELSE LET lastPrev == lastPrevFrom(results, Null, currentStart,
                                            currentReservationId)
               IN IF lastPrev = Null THEN "long"
                  ELSE IF diffInDays(currentStart, lastPrev) <= SHORT_FORM_DAYS
                  THEN "short" ELSE "long"

\* the reservations list_reservations may return for the customer
ListedReservations ==
  [reservation_id : BookingIDs, start_time : DateStrings]

RECURSIVE ResultLists(_)
ResultLists(n) ==
  IF n = 0 THEN {<<>>}
  ELSE LET shorter == ResultLists(n - 1)
       IN shorter \cup {Append(rs, r) : rs \in {x \in shorter : Len(x) = n - 1},
                                        r \in ListedReservations}

\* a call of decideFormTypeForBooking waits with its arguments and with the
\* answer list_reservations will give
InitDecide ==
  /\ InitServer
  /\ treqs = <<>>
  /\ sentFile = NoFile
  /\ sentDepositBookings = loadSet(sentFile)
  /\ reqs = <<>>
  /\ callbacks = <<>>
  /\ sched = <<>>

DecideCall ==
  /\ decision = NoDecision
  /\ \E email \in {Null, 501}, currentStartStr \in DateStrings \cup {NoDateString},
        currentReservationId \in ClientBookingIDs,
        results \in ResultLists(MaxResults) :
       decision' = [email |-> email, currentStartStr |-> currentStartStr,
                    currentReservationId |-> currentReservationId,
                    results |-> results,
                    answer |-> "pending"]
  /\ UNCHANGED <<serverVars, paymentIntents, treqs, pageViews, squery, hooks,
                 hookMail, depositAnswer, host, formAnswers>>

DecideReturn ==
  /\ decision.answer = "pending"
  /\ decision' = [decision EXCEPT !.answer =
                    decideFormTypeForBooking(decision.email,
                                             decision.currentStartStr,
                                             decision.currentReservationId,
                                             decision.results)]
  /\ UNCHANGED <<serverVars, paymentIntents, treqs, pageViews, squery, hooks,
                 hookMail, depositAnswer, host, formAnswers>>

NextDecide ==
  \/ DecideCall
  \/ DecideReturn

SpecDecide == InitDecide /\ [][NextDecide]_vars

\* the well-formed starts, before the current booking's, of the listed
\* reservations with another id
EarlierStarts(d) ==
  {d.results[k].start_time.day : k \in {j \in DOMAIN d.results :
     /\ d.results[j].reservation_id # d.currentReservationId
     /\ d.results[j].start_time.form = "full"
     /\ d.results[j].start_time.day < d.currentStartStr.day}}

\* the customer has such a reservation, and the latest of them starts at
\* most 90 days before the current booking
RecentEarlierStay(d) ==
  /\ d.email # Null
  /\ d.currentStartStr.form = "full"
  /\ \E s \in EarlierStarts(d) :
       /\ \A t \in EarlierStarts(d) : t <= s
       /\ d.currentStartStr.day - s <= SHORT_FORM_DAYS

====
